---- MODULE Spec2Model ----
(***************************************************************************)
(* A model of the periodic-job engine of 1k-validators-be and of the       *)
(* candidate store it writes to.                                           *)
(*                                                                         *)
(*   - the cron callbacks registered by the start...Job functions, with    *)
(*     their closure-local `running` flags, and the job bodies of jobs.ts  *)
(*     (SpecJobs);                                                         *)
(*   - the candidate collection of Db: the type-specific invalidity        *)
(*     setters, setValid and the telemetry reports, every store command    *)
(*     being one atomic step and every handler a sequence of them          *)
(*     (SpecInvalidity);                                                   *)
(*   - the store operations addressed to a stash (SpecMissing).            *)
(***************************************************************************)
EXTENDS Integers, Sequences, FiniteSets, Bags, TLC

VARIABLES
    running,     \* job name -> the closure variable `running` of its cron callback
    calls,       \* the bag of cron callbacks and detached bodies in progress
    failures,    \* how many awaited calls have rejected so far
    crashed,     \* the process was ended by an unhandled rejection
    candidates,  \* the candidate collection: documents in insertion order
    nominators,  \* the nominator collection
    ops,         \* caller -> the store operation the caller is awaiting, or NoOp
    inflight,    \* update commands issued with .exec() and not awaited, not yet applied
    delayedTxs,  \* the DelayedTx collection: rows in insertion order
    announced,   \* how many rows addDelayedTx has saved so far
    block,       \* the number of the chain's best block
    execs,       \* the bag of Execution cron callbacks in progress or just settled
    eraPoints,        \* the EraPoints collection: rows in insertion order
    totalEraPoints,   \* the TotalEraPoints collection
    eraStats,         \* the EraStats collection
    activeEra,        \* the chain's active era index
    chainPoints,      \* era -> the validators' reward points the chain reports
    eraRun,           \* the eraPointsJob run of the EraPoints cron callback
    eraWrites,        \* updates of the era collections issued with .exec(), not yet applied
    sessions,         \* the telemetry sessions that are open: node id and node name
    chain,            \* stash -> what the chain reports of the validator
    prefRun,          \* the validatorPrefJob run of the ValidatorPref cron callback
    nominations,      \* the Nomination collection: rows in insertion order
    nomCalls,         \* caller -> the setNomination call the caller is awaiting
    nomWrites,        \* updates of the Nomination collection issued and not awaited
    balance,          \* the free balance of the claimer account, in plancks
    rewardJob,        \* the RewardClaim cron: not started, started, or its tick
    claimed,          \* what the last RewardClaim tick handed to claimer.claim
    proxy,            \* config.proxy
    announcements,    \* nominator address -> its proxy announcements on chain
    cancelRun,        \* the Cancel cron callback in progress
    validatorScores,  \* the ValidatorScore collection: rows in insertion order
    scoreCall,        \* the setValidatorScore call in progress or just returned
    scoreWrites,      \* updates of the ValidatorScore collection issued and not awaited
    loopRuns,         \* job name -> the run of the job's loop over the candidates
    currentValidators \* the stashes of the chain's current validator set

jobVars == <<running, calls, failures, crashed>>
storeVars == <<candidates, nominators, ops, inflight>>
execVars == <<delayedTxs, announced, block, execs>>
eraVars == <<eraPoints, totalEraPoints, eraStats, activeEra, chainPoints, eraRun,
             eraWrites>>
prefVars == <<chain, prefRun>>
nominationVars == <<nominations, nomCalls, nomWrites>>
rewardVars == <<balance, rewardJob, claimed>>
cancelVars == <<proxy, announcements, cancelRun>>
scoreVars == <<validatorScores, scoreCall, scoreWrites>>
vars == <<running, calls, failures, crashed, candidates, nominators, ops, inflight,
          delayedTxs, announced, block, execs,
          eraPoints, totalEraPoints, eraStats, activeEra, chainPoints, eraRun,
          eraWrites, sessions, chain, prefRun, nominations, nomCalls, nomWrites,
          balance, rewardJob, claimed, proxy, announcements, cancelRun,
          validatorScores, scoreCall, scoreWrites, loopRuns,
          currentValidators>>
\* what the ValidatorScore rows and the runs of the candidate jobs hold
lastVars == <<scoreVars, loopRuns, currentValidators>>
\* what the validator-preference run, the Nomination rows and the RewardClaim
\* and Cancel crons hold, and the above
laterVars == <<prefVars, nominationVars, rewardVars, cancelVars, lastVars>>
\* what the cron callbacks leave alone, and what the store operations leave alone
notJobVars == <<storeVars, execVars, eraVars, sessions, laterVars>>
\* what the telemetry reports leave alone, and what the other store operations do
notReportVars == <<jobVars, execVars, eraVars, laterVars>>
notStoreVars == <<notReportVars, sessions>>
\* what the Execution callback leaves alone
notExecVars == <<jobVars, storeVars, eraVars, sessions, laterVars>>
\* what the era jobs leave alone, apart from the flag and the failure count
notEraVars == <<calls, crashed, storeVars, execVars, sessions, laterVars>>

----------------------------------------------------------------------------
(* Bounds *)

\* cron callbacks and detached bodies that may be in progress at once
MaxInvocations == 2
\* awaited calls that may reject in one behaviour
MaxFailures == 1
\* candidates returned by db.allCandidates() to a job
NumCandidates == 2

----------------------------------------------------------------------------
(* The job catalog: the cron callbacks of the start...Job functions *)

JobNames ==
    {"Monitor", "ClearOffline", "Validity", "Score", "EraStats", "Execution",
     "RewardClaim", "Cancel", "Stale", "EraPoints", "ActiveValidator",
     "Inclusion", "SessionKey", "UnclaimedEras", "ValidatorPref",
     "ExtNominations"}

\* a catalog in which only the callback of EraPoints has a flag
OnlyEraPointsHasFlag(j) == j = "EraPoints"

\* the callbacks that declare `let running = false` and test it on entry
HasRunningFlag(j) ==
    j \in {"Validity", "Score", "EraStats", "EraPoints", "ActiveValidator",
           "Inclusion", "SessionKey", "UnclaimedEras", "ValidatorPref",
           "ExtNominations"}

\* the only callback that wraps its body in try/catch
CatchesBodyError(j) == j = "EraPoints"

\* the callbacks that start with `await db.allCandidates()`
TakesSnapshot(j) ==
    j \in {"Validity", "EraStats", "ActiveValidator", "Inclusion", "SessionKey",
           "UnclaimedEras", "ValidatorPref", "ExtNominations"}

\* the job bodies of jobs.ts that are a `for (const candidate of candidates)`
\* loop of awaited chain and store calls
LoopsOverCandidates(j) ==
    j \in {"Validity", "ValidatorPref", "UnclaimedEras", "SessionKey",
           "Inclusion", "ActiveValidator"}

\* the loop bodies preceded by one awaited chain call
\* (getQueuedKeys, getActiveEraIndex, currentValidators)
HasPrelude(j) == j \in {"SessionKey", "Inclusion", "ActiveValidator"}

\* the callbacks that do not await the body they start:
\* `db.clearAccumulated()` and, inside scoreJob, `constraints.scoreAllCandidates()`
BodyDetached(j) == j \in {"ClearOffline", "Score"}

Snapshot == 1..NumCandidates

InProgress(c) == c.pc \notin {"resolved", "rejected"}
Settled(c) == c.pc \in {"resolved", "rejected"}

\* the callbacks and detached bodies now in progress or just settled
Calls == BagToSet(calls)
Replace(c, d) == (calls (-) SetToBag({c})) (+) SetToBag({d})

\* where a callback stands after `running = true`
FirstPc(j) ==
    IF TakesSnapshot(j) THEN "allCandidates"
    ELSE "body"

\* where a callback stands once db.allCandidates() has returned
AfterSnapshot(j) ==
    IF HasPrelude(j) THEN "prelude"
    ELSE IF LoopsOverCandidates(j) THEN "loop"
    ELSE "body"

\* the candidate the loop of invocation c is at
Current(c) == CHOOSE i \in Snapshot \ c.done : \A k \in Snapshot \ c.done : i <= k

InitJobs ==
    /\ running = [j \in JobNames |-> FALSE]
    /\ calls = EmptyBag
    /\ failures = 0
    /\ crashed = FALSE

\* a test that returns from the callback when the flag of any job is set
AnyFlagSet(j) == \E k \in JobNames : HasRunningFlag(k) /\ running[k]

\* `if (running) { return; }`: running is the variable of the callback's own
\* closure
OwnFlagSet(j) == HasRunningFlag(j) /\ running[j]

\* A cron tick of job j: the callback returns at once when its flag is set,
\* otherwise sets the flag (when it has one) and starts the body.  A detached
\* body is started and the callback is over within the tick: a flag set before
\* it is cleared again before any other tick can run.
CronTick(j) ==
    /\ ~crashed
    /\ BagCardinality(calls) < MaxInvocations
    /\ IF OwnFlagSet(j)
       THEN UNCHANGED <<running, calls>>
       ELSE /\ running' = IF HasRunningFlag(j) /\ ~BodyDetached(j)
                          THEN [running EXCEPT ![j] = TRUE]
                          ELSE running
            /\ calls' = calls (+) SetToBag({[job |-> j, pc |-> FirstPc(j),
                                             done |-> {}, failedAt |-> 0]})
    /\ UNCHANGED <<failures, crashed, notJobVars>>

\* the statement after the awaited body: `running = false` where there is a flag
ClearFlag(j) ==
    IF HasRunningFlag(j) /\ ~BodyDetached(j)
    THEN [running EXCEPT ![j] = FALSE]
    ELSE running

\* The call awaited by invocation c returns normally.
AwaitReturns(c) ==
    /\ ~crashed
    /\ InProgress(c)
    /\ CASE c.pc = "allCandidates" ->
              /\ calls' = Replace(c, [c EXCEPT !.pc = AfterSnapshot(c.job)])
              /\ UNCHANGED running
         [] c.pc = "prelude" ->
              /\ calls' = Replace(c, [c EXCEPT !.pc = "loop"])
              /\ UNCHANGED running
         [] c.pc = "loop" ->
              LET done == c.done \cup {Current(c)}
              IN  IF done = Snapshot
                  THEN /\ calls' = Replace(c, [c EXCEPT !.done = done,
                                                        !.pc = "resolved"])
                       /\ running' = ClearFlag(c.job)
                  ELSE /\ calls' = Replace(c, [c EXCEPT !.done = done])
                       /\ UNCHANGED running
         [] c.pc = "body" ->
              /\ calls' = Replace(c, [c EXCEPT !.pc = "resolved"])
              /\ running' = ClearFlag(c.job)
    /\ UNCHANGED <<failures, crashed, notJobVars>>

\* The call awaited by invocation c rejects.  Only the body of EraPoints is
\* inside a try/catch, after which `running = false` is executed; everywhere
\* else the rejection leaves the async callback as it is.
AwaitRejects(c) ==
    /\ ~crashed
    /\ InProgress(c)
    /\ failures < MaxFailures
    /\ failures' = failures + 1
    /\ IF CatchesBodyError(c.job)
       THEN /\ calls' = Replace(c, [c EXCEPT !.pc = "resolved"])
            /\ running' = ClearFlag(c.job)
       ELSE /\ calls' = Replace(c, [c EXCEPT
                            !.pc = "rejected",
                            !.failedAt = IF c.pc = "loop" THEN Current(c) ELSE 0])
            /\ UNCHANGED running
    /\ UNCHANGED <<crashed, notJobVars>>

\* The settled promise of invocation c is dropped by the cron library.  A
\* rejected one is an unhandled rejection: the runtime either reports it and
\* goes on, or ends the process.
PromiseDropped(c) ==
    /\ ~crashed
    /\ Settled(c)
    /\ IF c.pc = "rejected"
       THEN \E die \in BOOLEAN :
               /\ crashed' = die
               /\ calls' = IF die THEN EmptyBag ELSE calls (-) SetToBag({c})
               /\ running' = IF die THEN [j \in JobNames |-> FALSE] ELSE running
       ELSE /\ calls' = calls (-) SetToBag({c})
            /\ UNCHANGED <<running, crashed>>
    /\ UNCHANGED <<failures, notJobVars>>

NextJobs ==
    \/ \E j \in JobNames : CronTick(j)
    \/ \E c \in Calls : AwaitReturns(c)
    \/ \E c \in Calls : AwaitRejects(c)
    \/ \E c \in Calls : PromiseDropped(c)

----------------------------------------------------------------------------
(* Claims about the cron callbacks *)

\* how many bodies of job j are in progress
BodiesInProgress(j) ==
    LET mine == {c \in Calls : c.job = j /\ InProgress(c)}
    IN  BagCardinality([c \in mine |-> calls[c]])

\* C1: in no reachable state are two bodies of the same job in progress,
\* whichever of the sixteen jobs of the catalog it is.
C1_NoTwoBodiesOfOneJob == \A j \in JobNames : BodiesInProgress(j) <= 1

\* C2: a running flag is set only while an invocation of its job is in
\* progress: an invocation that failed has cleared it, so the job is never left
\* latched with no body running.
C2_FlagClearedAfterFailure ==
    \A j \in JobNames :
        (HasRunningFlag(j) /\ running[j]) => BodiesInProgress(j) >= 1

\* C3: an error raised in a job body never leaves the tick callback as a
\* rejection nobody handles, and so never ends the process either.
C3_ErrorsContained ==
    /\ ~crashed
    /\ \A c \in Calls : c.pc # "rejected"

\* C9: when a chain or store call made for one candidate inside the loop of a
\* job has failed, the invocation has, once it is over, still processed every
\* other candidate of the snapshot.
C9_LoopNeverAborted ==
    \A c \in Calls :
        (LoopsOverCandidates(c.job) /\ Settled(c) /\ c.failedAt \in Snapshot)
            => (Snapshot \ c.done) \subseteq {c.failedAt}

\* another job than j has an invocation in progress
OtherJobInProgress(j) == \E c \in Calls : c.job # j /\ InProgress(c)

\* C31: jobs of different names do not exclude one another: whatever other
\* jobs are in progress and whatever their flags are, a tick of a job whose
\* own flag is not set starts the body of that job.
C31_OtherFlagsDropNoTick ==
    \A j \in JobNames :
        (/\ ~crashed
         /\ BagCardinality(calls) < MaxInvocations
         /\ ~(HasRunningFlag(j) /\ running[j]))
            => ENABLED (CronTick(j) /\ calls' # calls)

\* the bodies of two jobs are in progress at once, both with their flag set
C31_Witness ==
    \E c, d \in Calls :
        /\ c.job # d.job
        /\ InProgress(c) /\ InProgress(d)
        /\ running[c.job] /\ running[d.job]

\* the callbacks of job j that have set the flag and not executed
\* `running = false`: those in progress and those a rejection has ended.  The
\* callback that does not await the body it starts sets and clears the flag
\* within its tick, and is none of them in any state between two ticks.
BetweenSetAndClear(j) ==
    LET mine == {c \in Calls : c.job = j /\ c.pc # "resolved"}
    IN  IF BodyDetached(j) THEN 0 ELSE BagCardinality([c \in mine |-> calls[c]])

\* C34: of each of the ten jobs whose callback has a running flag, at most
\* one callback is between setting the flag and clearing it, whenever the
\* ticks come.
C34_OneCallbackPerFlaggedJob ==
    \A j \in {"Validity", "Score", "EraStats", "EraPoints", "ActiveValidator",
               "Inclusion", "SessionKey", "UnclaimedEras", "ValidatorPref",
               "ExtNominations"} :
        BetweenSetAndClear(j) <= 1

\* a callback of a flagged job is in progress with its flag set, and a
\* further tick of the job can come
C34_Witness ==
    /\ running["ValidatorPref"]
    /\ BetweenSetAndClear("ValidatorPref") = 1
    /\ BagCardinality(calls) < MaxInvocations

\* C35: no two scoring computations started by Score ticks are in progress
\* at once, and the flag of the Score job is set as long as one is.
C35_ScoringNeverOverlaps ==
    /\ BodiesInProgress("Score") <= 1
    /\ BodiesInProgress("Score") = 1 => running["Score"]

----------------------------------------------------------------------------
(* The candidate collection of Db *)

\* The closed set of invalidity types: one setter of Db for each.
InvalidityTypes ==
    {"ONLINE", "VALIDATE_INTENTION", "CLIENT_UPGRADE", "CONNECTION_TIME",
     "IDENTITY", "ACCUMULATED_OFFLINE_TIME", "REWARD_DESTINATION", "COMMISION",
     "SELF_STAKE", "UNCLAIMED_REWARDS", "BLOCKED", "KUSAMA_RANK"}

\* The setters differ only in their type string; the model calls two of
\* them, setOnlineValidity and setIdentityInvalidity.
SetterTypes == {"ONLINE", "IDENTITY"}

Stashes == {"s1", "s2"}
Names == {"n1", "n2"}
TelemetryIds == {1, 2}

\* The threads that call the store: each awaits one operation at a time.
\* "validity" stands for checkCandidate (the setters, then setValid),
\* "telemetry" for the telemetry client and "nominator" for the code that
\* nominates and keeps the ranks.
\* "config" stands for the code that ingests the configured candidates.
Callers == {"validity", "telemetry", "nominator", "clearOffline", "config"}

\* update commands issued and not awaited that may be pending at once
MaxInflight == 2
\* the range in which the model lets nodeRefs move
MaxNodeRefs == 1
\* the range in which the model lets rank and faults move
MaxRank == 3
\* the targets the model lets a nominator's `current` list hold
MaxCurrent == 1

NoOp == [op |-> "none"]

\* A candidate document as addCandidate saves it (the other fields at the
\* defaults of the schema; a number that is not set reads as 0).  The document
\* has no `valid` field until setValid writes one.
NewCandidate(name, stash) ==
    [name |-> name, stash |-> stash, telemetryId |-> 0, nodeRefs |-> 0,
     version |-> "", discoveredAt |-> 0, onlineSince |-> 0, offlineSince |-> 0,
     offlineAccumulated |-> 0, invalidity |-> <<>>,
     rank |-> 0, faults |-> 0, nominatedAt |-> 0, commission |-> 0]

\* A nominator document as addNominator saves it (address and current only).
NewNominator(address) == [address |-> address, current |-> <<>>]

\* A candidate document as reportOnline saves it for a name it does not know.
NewNode(telemetryId, name, version, now) ==
    [NewCandidate(name, "null") EXCEPT
        !.telemetryId = telemetryId, !.nodeRefs = 1, !.version = version,
        !.discoveredAt = now, !.onlineSince = now, !.offlineSince = 0]

\* findOne(filter): the index of the first document that matches, 0 for null.
First(hits) ==
    IF hits = {} THEN 0 ELSE CHOOSE i \in hits : \A k \in hits : i <= k

ByStash(stash) ==
    First({i \in 1..Len(candidates) : candidates[i].stash = stash})
ByName(name) ==
    First({i \in 1..Len(candidates) : candidates[i].name = name})
ByTelemetryId(id) ==
    First({i \in 1..Len(candidates) : candidates[i].telemetryId = id})

\* The documents a command's filter may select.  A filter that is a bare number
\* (reportBestBlock) is no filter object: the query layer either looks the
\* number up as the telemetry id or drops it and takes the first document.
Targets(filter) ==
    CASE filter.by = "stash" -> {ByStash(filter.key)}
      [] filter.by = "name" -> {ByName(filter.key)}
      [] filter.by = "telemetryId" -> {ByTelemetryId(filter.key)}
      [] filter.by = "number" ->
            {ByTelemetryId(filter.key), IF Len(candidates) > 0 THEN 1 ELSE 0}

\* findOneAndUpdate without upsert on document d: the fields of `set` are
\* written, nodeRefs is moved by `inc`, every other field is kept.
Patch(d, cmd) ==
    [f \in DOMAIN d \cup DOMAIN cmd.set |->
        IF f \in DOMAIN cmd.set THEN cmd.set[f]
        ELSE IF f = "nodeRefs" THEN d[f] + cmd.inc
        ELSE d[f]]

\* The collection after command cmd has acted on document i (0: none matched).
Applied(cmd, i) ==
    IF cmd.kind = "save" THEN Append(candidates, cmd.doc)
    ELSE IF i = 0 THEN candidates
    ELSE [candidates EXCEPT ![i] = Patch(candidates[i], cmd)]

Update(filter, set, inc) ==
    [kind |-> "update", filter |-> filter, set |-> set, inc |-> inc]
Save(doc) == [kind |-> "save", filter |-> [by |-> "none"], doc |-> doc]

\* a setter that appends its entry without removing the one already there
AllReasons(invalidity, type) == invalidity

\* data.invalidity.filter((r) => r.type !== type)
OtherReasons(invalidity, type) ==
    SelectSeq(invalidity, LAMBDA e : e.type # type)

\* [...invalidityReasons, {valid, type, updated, details}]
\* (the timestamp and the message of an entry are not modelled)
WithReason(invalidity, type, validity) ==
    Append(OtherReasons(invalidity, type), [type |-> type, valid |-> validity])

\* A type-specific invalidity setter (setOnlineValidity ... setKusamaRankInvalidity):
\* findOne by stash; return when there is no document; otherwise issue the
\* update of the whole list with .exec() and return without awaiting it.
SetInvalidity(k, type, stash, validity) ==
    /\ ops[k] = NoOp
    /\ LET i == ByStash(stash)
       IN  IF i = 0
           THEN inflight' = inflight
           ELSE /\ Cardinality(inflight) < MaxInflight
                /\ inflight' = inflight \cup
                      {[caller |-> k, type |-> type,
                        cmd |-> Update([by |-> "stash", key |-> stash],
                                       [invalidity |->
                                          WithReason(candidates[i].invalidity,
                                                     type, validity)], 0)]}
    /\ UNCHANGED <<candidates, nominators, ops, notStoreVars>>

\* setValid: findOne by stash; return when there is no document; otherwise
\* issue the update of `valid` with .exec() and return without awaiting it.
setValid(k, stash, validity) ==
    /\ ops[k] = NoOp
    /\ LET i == ByStash(stash)
       IN  IF i = 0
           THEN inflight' = inflight
           ELSE /\ Cardinality(inflight) < MaxInflight
                /\ inflight' = inflight \cup
                      {[caller |-> k, type |-> "valid",
                        cmd |-> Update([by |-> "stash", key |-> stash],
                                       [valid |-> validity], 0)]}
    /\ UNCHANGED <<candidates, nominators, ops, notStoreVars>>

\* The store applies an update that was issued without being awaited.
ApplyInflight(w) ==
    /\ w \in inflight
    /\ \E i \in Targets(w.cmd.filter) : candidates' = Applied(w.cmd, i)
    /\ inflight' = inflight \ {w}
    /\ UNCHANGED <<nominators, ops, notStoreVars>>

\* The telemetry client calls reportOnline when a node is added to its feed
\* and reportOffline when the node is removed from it: `sessions` holds the
\* nodes that have been added and not removed.
\* reportOnline: findOne by name, then the commands that follow from what was
\* read: a save for an unknown name; otherwise the update made when
\* discoveredAt is not set, the update made always, and the update made when
\* the node had been offline.  Each is awaited before the next.
reportOnline(k, telemetryId, name, version, now) ==
    /\ ops[k] = NoOp
    /\ LET i == ByName(name)
           data == candidates[i]
           byName == [by |-> "name", key |-> name]
           reasons == WithReason(data.invalidity, "ONLINE", TRUE)
           first == Update(byName,
                      [telemetryId |-> telemetryId, discoveredAt |-> now,
                       onlineSince |-> now, offlineSince |-> 0,
                       invalidity |-> reasons], 0)
           always == Update(byName,
                      [telemetryId |-> telemetryId, onlineSince |-> now,
                       version |-> version, invalidity |-> reasons], 1)
           wasOffline == Update(byName,
                      [offlineSince |-> 0,
                       offlineAccumulated |->
                          data.offlineAccumulated + (now - data.offlineSince)], 0)
       IN  ops' = [ops EXCEPT ![k] =
                [op |-> "reportOnline",
                 todo |-> IF i = 0
                          THEN <<Save(NewNode(telemetryId, name, version, now))>>
                          ELSE (IF data.discoveredAt = 0 THEN <<first>> ELSE <<>>)
                               \o <<always>>
                               \o (IF data.offlineSince # 0 THEN <<wasOffline>>
                                   ELSE <<>>)]]
    /\ sessions' = sessions \cup {[id |-> telemetryId, name |-> name]}
    /\ UNCHANGED <<candidates, nominators, inflight, notReportVars>>

\* reportOffline: findOne by telemetry id; return false when there is no
\* document; with nodeRefs > 1 only decrement nodeRefs, otherwise also mark
\* the node offline.  Both updates rewrite the ONLINE entry as not valid.
reportOffline(k, telemetryId, now) ==
    /\ ops[k] = NoOp
    /\ LET i == ByTelemetryId(telemetryId)
           data == candidates[i]
           byId == [by |-> "telemetryId", key |-> telemetryId]
           reasons == WithReason(data.invalidity, "ONLINE", FALSE)
       IN  ops' = [ops EXCEPT ![k] =
                IF i = 0 THEN NoOp
                ELSE [op |-> "reportOffline",
                      todo |-> IF data.nodeRefs > 1
                               THEN <<Update(byId, [invalidity |-> reasons], -1)>>
                               ELSE <<Update(byId,
                                        [offlineSince |-> now, onlineSince |-> 0,
                                         invalidity |-> reasons], -1)>>]]
    /\ sessions' = {n \in sessions : n.id # telemetryId}
    /\ UNCHANGED <<candidates, nominators, inflight, notReportVars>>

\* reportBestBlock: findOne by telemetry id; return false when there is no
\* document; when the node was deemed offline, mark it online again.  The
\* update is given the bare number telemetryId as its filter.
reportBestBlock(k, telemetryId, now) ==
    /\ ops[k] = NoOp
    /\ LET i == ByTelemetryId(telemetryId)
           data == candidates[i]
       IN  ops' = [ops EXCEPT ![k] =
                IF i = 0 \/ data.offlineSince = 0 THEN NoOp
                ELSE [op |-> "reportBestBlock",
                      todo |-> <<Update([by |-> "number", key |-> telemetryId],
                                   [offlineSince |-> 0, onlineSince |-> now,
                                    offlineAccumulated |->
                                       data.offlineAccumulated
                                          + (now - data.offlineSince),
                                    invalidity |->
                                       WithReason(data.invalidity, "ONLINE", TRUE)],
                                   0)>>]]
    /\ UNCHANGED <<candidates, nominators, inflight, notStoreVars>>

\* The store executes the command caller k is awaiting; the operation returns
\* after its last command.
AwaitedCommand(k) ==
    /\ "todo" \in DOMAIN ops[k]
    /\ LET cmd == Head(ops[k].todo)
           rest == Tail(ops[k].todo)
       IN  /\ \E i \in (IF cmd.kind = "save" THEN {0} ELSE Targets(cmd.filter)) :
                 candidates' = Applied(cmd, i)
           /\ ops' = [ops EXCEPT ![k] =
                        IF rest = <<>> THEN NoOp ELSE [ops[k] EXCEPT !.todo = rest]]
    /\ UNCHANGED <<nominators, inflight, notStoreVars>>

\* An operation whose body threw: its promise is rejected with the error.
Thrown(op, stash) == [op |-> op, stash |-> stash, error |-> "TypeError"]

\* The caller of an operation that threw receives the rejection.
Rejected(k) ==
    /\ "error" \in DOMAIN ops[k]
    /\ ops' = [ops EXCEPT ![k] = NoOp]
    /\ UNCHANGED <<candidates, nominators, inflight, notStoreVars>>

\* setCommission, setController, setIdentity: one awaited findOneAndUpdate by
\* stash, no upsert, then return true.
SetAttribute(k, field, stash, value) ==
    /\ ops[k] = NoOp
    /\ candidates' = Applied(Update([by |-> "stash", key |-> stash],
                                    [f \in {field} |-> value], 0),
                             ByStash(stash))
    /\ UNCHANGED <<nominators, ops, inflight, notStoreVars>>

setCommission(k, stash, commission) ==
    SetAttribute(k, "commission", stash, commission)
setController(k, stash, controller) ==
    SetAttribute(k, "controller", stash, controller)
setIdentity(k, stash, identity) ==
    SetAttribute(k, "identity", stash, identity)

\* the fields addPoint, dockPoints and forgiveDockedPoints write
AddPointUpdate(data) == [rank |-> data.rank + 1]
DockPointsUpdate(data) ==
    [rank |-> data.rank - (data.rank \div 6), faults |-> data.faults + 1]
ForgiveDockedPointsUpdate(data) ==
    [rank |-> data.rank * 2 + 1, faults |-> data.faults - 1]

RankUpdate(op, data) ==
    CASE op = "addPoint" -> AddPointUpdate(data)
      [] op = "dockPoints" -> DockPointsUpdate(data)
      [] op = "forgiveDockedPoints" -> ForgiveDockedPointsUpdate(data)

\* addPoint, dockPoints, forgiveDockedPoints: findOne by stash, then an awaited
\* update computed from data.rank and data.faults.  There is no check of
\* data: reading data.rank of null throws.
RankOperation(k, op, stash) ==
    /\ ops[k] = NoOp
    /\ LET i == ByStash(stash)
       IN  ops' = [ops EXCEPT ![k] =
                IF i = 0 THEN Thrown(op, stash)
                ELSE [op |-> op,
                      todo |-> <<Update([by |-> "stash", key |-> stash],
                                        RankUpdate(op, candidates[i]), 0)>>]]
    /\ UNCHANGED <<candidates, nominators, inflight, notStoreVars>>

addPoint(k, stash) == RankOperation(k, "addPoint", stash)
dockPoints(k, stash) == RankOperation(k, "dockPoints", stash)
forgiveDockedPoints(k, stash) == RankOperation(k, "forgiveDockedPoints", stash)

\* setTarget: the awaited update of nominatedAt by stash; the call goes on to
\* getCandidate(target).
setTarget(k, address, target, now) ==
    /\ ops[k] = NoOp
    /\ candidates' = Applied(Update([by |-> "stash", key |-> target],
                                    [nominatedAt |-> now], 0),
                             ByStash(target))
    /\ ops' = [ops EXCEPT ![k] =
                 [op |-> "setTarget", pc |-> "byStash",
                  address |-> address, target |-> target]]
    /\ UNCHANGED <<nominators, inflight, notStoreVars>>

\* $push: {current: {name, stash, identity}} on the nominator of an address
\* (the identity of the target is not modelled)
PushCurrent(address, candidate) ==
    [n \in 1..Len(nominators) |->
        IF n = First({m \in 1..Len(nominators) :
                        nominators[m].address = address})
        THEN [nominators[n] EXCEPT
                !.current = Append(@, [name |-> candidate.name,
                                       stash |-> candidate.stash])]
        ELSE nominators[n]]

\* The rest of setTarget: getCandidate reads by stash and, finding nothing,
\* by name; then candidate.name is read, which throws for null; then the
\* awaited $push onto the nominator's current list.
setTargetNext(k) ==
    /\ "pc" \in DOMAIN ops[k]
    /\ LET o == ops[k]
           i == IF o.pc = "byStash" THEN ByStash(o.target) ELSE ByName(o.target)
       IN  CASE o.pc = "push" ->
                  /\ nominators' = PushCurrent(o.address, o.candidate)
                  /\ ops' = [ops EXCEPT ![k] = NoOp]
             [] o.pc # "push" /\ i # 0 ->
                  /\ ops' = [ops EXCEPT ![k] =
                               [op |-> "setTarget", pc |-> "push",
                                address |-> o.address, target |-> o.target,
                                candidate |-> candidates[i]]]
                  /\ UNCHANGED nominators
             [] o.pc = "byStash" /\ i = 0 ->
                  /\ ops' = [ops EXCEPT ![k] = [o EXCEPT !.pc = "byName"]]
                  /\ UNCHANGED nominators
             [] o.pc = "byName" /\ i = 0 ->
                  /\ ops' = [ops EXCEPT ![k] = Thrown("setTarget", o.target)]
                  /\ UNCHANGED nominators
    /\ UNCHANGED <<candidates, inflight, notStoreVars>>

InitStore ==
    /\ candidates = <<NewCandidate("n1", "s1")>>
    /\ nominators = <<NewNominator("a1")>>
    /\ ops = [k \in Callers |-> NoOp]
    /\ inflight = {}
    /\ sessions = {}

\* timeDelayBlocks of startExecutionJob: config.proxy.timeDelayBlocks, set to 10
timeDelayBlocks == 10
\* TIME_DELAY_BLOCKS, the default of startExecutionJob
TIME_DELAY_BLOCKS == 10850
\* the highest block number the chain reaches
MaxBlock == 111

InitExec ==
    /\ delayedTxs = <<>>
    /\ announced = 0
    /\ block = MaxBlock - 2
    /\ execs = EmptyBag

\* the window of eraPointsJob, and the total from which a stored era counts
\* as final
Window == 84
Threshold == 70000
\* the highest era index the chain reaches
MaxEra == 1
\* the validators of an era, and the reward points a validator has in the
\* course of an era, from its start
Validators == <<"v1", "v2">>
PointLevels == <<30000, 40000, 50000>>

NoRow == [era |-> -1]
IdleRun ==
    [pc |-> "idle", activeEra |-> 0, i |-> 0, erapoints |-> NoRow, era |-> 0,
     total |-> 0, validators |-> <<>>, v |-> 0, reads |-> {}, fetches |-> {}]

\* the reward points of an era that has just started
FreshPoints == [n \in 1..Len(Validators) |->
                   [address |-> Validators[n], eraPoints |-> PointLevels[1]]]

InitEra ==
    /\ eraPoints = <<>>
    /\ totalEraPoints = <<>>
    /\ eraStats = <<>>
    /\ activeEra = 0
    /\ chainPoints = [e \in 0..MaxEra |-> FreshPoints]
    /\ eraRun = IdleRun
    /\ eraWrites = {}

\* What chaindata reports of a validator: getFormattedIdentity, getCommission
\* (in parts per billion), getControllerFromStash, getRewardDestination and
\* getBondedAmount.
ChainPrefs ==
    {[identity |-> "id1", commission |-> 0, controller |-> "c1",
      rewardDestination |-> "Staked", bonded |-> 5],
     [identity |-> "id1", commission |-> 10000000, controller |-> "c1",
      rewardDestination |-> "Stash", bonded |-> 5],
     [identity |-> "id2", commission |-> 25000000, controller |-> "c2",
      rewardDestination |-> "Staked", bonded |-> 6]}

\* no validatorPrefJob run in progress, none has returned
IdlePref == [pc |-> "idle", stashes |-> <<>>, n |-> 0, f |-> 0,
             after |-> <<>>, settled |-> FALSE, twice |-> FALSE]

InitPrefs ==
    /\ chain = [s \in Stashes |->
                  [identity |-> "id1", commission |-> 0, controller |-> "c1",
                   rewardDestination |-> "Staked", bonded |-> 5]]
    /\ prefRun = IdlePref

\* the callers of setNomination: each awaits one call at a time
NominationCallers == {"n1", "n2"}

InitNominations ==
    /\ nominations = <<>>
    /\ nomCalls = [k \in NominationCallers |-> NoOp]
    /\ nomWrites = {}

\* metadata.decimals of the chain the store describes: a unit of 10^6 plancks
decimals == 6

\* what the last RewardClaim tick that has ended handed to claimer.claim (no
\* batch or one), with the era and the threshold it worked with and whether
\* the claimer's free balance was below the minimum when the tick began
NoClaim == [batches |-> <<>>, currentEra |-> 0, claimThreshold |-> 0,
            low |-> FALSE, ticks |-> FALSE]

InitReward ==
    /\ balance = 10^decimals
    /\ rewardJob = [pc |-> "off"]
    /\ claimed = NoClaim

\* the controllers of the nominators in nominatorGroups
nominatorGroups == {"c1"}

\* no Cancel callback in progress, none has returned
IdleCancel == [pc |-> "idle", latestBlock |-> 0, read |-> {}, attempted |-> {}]

InitCancel ==
    /\ proxy = [timeDelayBlocks |-> timeDelayBlocks]
    /\ announcements = [a \in nominatorGroups |-> {}]
    /\ cancelRun = IdleCancel

\* no setValidatorScore call in progress, none has returned
NoScoreCall == [pc |-> "idle", address |-> "", score |-> <<>>]

InitScores ==
    /\ validatorScores = <<>>
    /\ scoreCall = NoScoreCall
    /\ scoreWrites = {}

\* the jobs of jobs.ts whose loop over the candidates follows one chain read
LoopJobs == {"Inclusion", "ActiveValidator"}

\* no run of the job in progress
IdleLoop == [pc |-> "idle", stashes |-> <<>>, n |-> 0, read |-> 0, found |-> 0]

InitLoops == loopRuns = [j \in LoopJobs |-> IdleLoop]

InitLast == InitScores /\ InitLoops /\ currentValidators = {}

InitLater == InitPrefs /\ InitNominations /\ InitReward /\ InitCancel /\ InitLast

Init == InitJobs /\ InitStore /\ InitExec /\ InitEra /\ InitLater

\* the highest active era index of a chain that is met in the course of its
\* life
MaxActiveEra == 85

\* a chain met at any active era, whose eras all have their final points,
\* and an empty store
InitWindow ==
    /\ InitJobs /\ InitStore /\ InitExec /\ InitLater
    /\ eraPoints = <<>>
    /\ totalEraPoints = <<>>
    /\ eraStats = <<>>
    /\ activeEra \in 0..MaxActiveEra
    /\ chainPoints = [e \in 0..MaxActiveEra |->
                         [n \in 1..Len(Validators) |->
                             [address |-> Validators[n], eraPoints |-> PointLevels[2]]]]
    /\ eraRun = IdleRun
    /\ eraWrites = {}

SpecJobs == Init /\ [][NextJobs]_vars

\* nodeRefs is kept within the model's range
Reportable(name) ==
    IF ByName(name) = 0 THEN TRUE
    ELSE candidates[ByName(name)].nodeRefs < MaxNodeRefs
Retractable(id) ==
    IF ByTelemetryId(id) = 0 THEN TRUE
    ELSE candidates[ByTelemetryId(id)].nodeRefs > 0

\* The invalidity setters, setValid and the telemetry reports, interleaved at
\* every store command.  One telemetry node reports, under the name of the
\* candidate, and time stands still at 1.
NextInvalidity ==
    \/ \E t \in SetterTypes, st \in Stashes, v \in BOOLEAN :
          SetInvalidity("validity", t, st, v)
    \/ \E st \in Stashes, v \in BOOLEAN : setValid("validity", st, v)
    \/ \E w \in inflight : ApplyInflight(w)
    \/ Reportable("n1") /\ reportOnline("telemetry", 1, "n1", "v1", 1)
    \/ Retractable(1) /\ reportOffline("telemetry", 1, 1)
    \/ reportBestBlock("telemetry", 1, 1)
    \/ \E k \in Callers : AwaitedCommand(k)

SpecInvalidity == Init /\ [][NextInvalidity]_vars

\* rank, faults and the current list are kept within the model's range
Rankable(stash) ==
    IF ByStash(stash) = 0 THEN TRUE
    ELSE /\ candidates[ByStash(stash)].rank * 2 + 1 <= MaxRank
         /\ candidates[ByStash(stash)].faults < MaxRank
         /\ candidates[ByStash(stash)].faults > -MaxRank
Nominable(address) ==
    \A n \in 1..Len(nominators) :
        nominators[n].address = address
            => Len(nominators[n].current) < MaxCurrent

\* The operations that name a candidate by stash, on the stash of the one
\* candidate ("s1") and on a stash no candidate has ("s2").
NextMissing ==
    \/ \E st \in Stashes, v \in BOOLEAN :
          SetInvalidity("validity", "IDENTITY", st, v)
    \/ \E w \in inflight : ApplyInflight(w)
    \/ \E st \in Stashes : setCommission("nominator", st, 1)
    \/ \E st \in Stashes : setController("nominator", st, "c1")
    \/ \E st \in Stashes : setIdentity("nominator", st, "i1")
    \/ \E st \in Stashes : Rankable(st) /\ addPoint("nominator", st)
    \/ \E st \in Stashes : Rankable(st) /\ dockPoints("nominator", st)
    \/ \E st \in Stashes : Rankable(st) /\ forgiveDockedPoints("nominator", st)
    \/ \E st \in Stashes :
          Nominable("a1") /\ setTarget("nominator", "a1", st, 1)
    \/ \E k \in Callers : setTargetNext(k)
    \/ \E k \in Callers : AwaitedCommand(k)
    \/ \E k \in Callers : Rejected(k)

SpecMissing == Init /\ [][NextMissing]_vars

----------------------------------------------------------------------------
(* Claims about the invalidity list *)

\* the entries of one type in a list
Reasons(invalidity, type) == SelectSeq(invalidity, LAMBDA e : e.type = type)

\* the entry a pending setter update is about to store
Written(w) == w.cmd.set.invalidity[Len(w.cmd.set.invalidity)]

Quiet == \A k \in Callers : ops[k] = NoOp

\* the conjunction of the entries' valid fields
AllValid(invalidity) == \A n \in 1..Len(invalidity) : invalidity[n].valid

\* C4: under every interleaving of the invalidity setters and the telemetry
\* reports, the invalidity list of every candidate holds at most one entry of
\* each invalidity type.
C4_OneEntryPerType ==
    \A i \in 1..Len(candidates) : \A t \in InvalidityTypes :
        Len(Reasons(candidates[i].invalidity, t)) <= 1

\* C4 witness: a list holding an entry of each type the model writes, while a
\* telemetry report is between its commands and a setter's update is pending
\* for a type the list already holds.
C4_Witness ==
    \E i \in 1..Len(candidates) :
        /\ \A t \in SetterTypes : Len(Reasons(candidates[i].invalidity, t)) = 1
        /\ ops["telemetry"] # NoOp
        /\ \E w \in inflight : w.type \in SetterTypes

\* C5: a candidate's valid field equals the conjunction of the valid fields of
\* its invalidity entries, and still does after a telemetry report or a setter
\* has rewritten an entry: no store step that changes the list of a candidate
\* whose valid field agrees with it leaves the two in disagreement.
C5_ValidIsConjunction ==
    [][\A i \in 1..Len(candidates) :
          ( /\ "valid" \in DOMAIN candidates[i]
            /\ candidates[i].valid = AllValid(candidates[i].invalidity)
            /\ candidates'[i].invalidity # candidates[i].invalidity )
             => candidates'[i].valid = AllValid(candidates'[i].invalidity)]_vars

\* C6: once setIdentityInvalidity(stash, v) has returned for an existing
\* candidate, with no other store operation in progress, the candidate's
\* invalidity list holds exactly one IDENTITY entry, and its valid is v.
C6_IdentityEntryVisibleOnReturn ==
    \A w \in inflight :
        (w.type = "IDENTITY" /\ inflight = {w} /\ Quiet)
            => Reasons(candidates[ByStash(w.cmd.filter.key)].invalidity, "IDENTITY")
                 = <<Written(w)>>

\* C7: when the store applies the update of a type-specific setter, the
\* entries of every other type in the candidate's list stay as they were,
\* whatever other setters and telemetry reports ran meanwhile.
C7_SetterKeepsOtherTypes ==
    [][\A w \in inflight :
          (inflight' = inflight \ {w} /\ w.type \in InvalidityTypes)
             => LET i == ByStash(w.cmd.filter.key)
                IN  OtherReasons(candidates'[i].invalidity, w.type)
                      = OtherReasons(candidates[i].invalidity, w.type)]_vars

\* C8: a caller runs no further store operation while an update it issued
\* earlier is still pending: its writes take effect in program order.
C8_WritesInProgramOrder ==
    [][\A w \in inflight \cap inflight' :
          \A later \in inflight' \ inflight : later.caller # w.caller]_vars

----------------------------------------------------------------------------
(* Claims about operations on a stash that no candidate has *)

\* C10: a store operation that names a candidate by a stash no candidate has
\* does not fail: it returns normally to its caller.
C10_MissingCandidateNeverFails ==
    \A k \in Callers :
        "error" \in DOMAIN ops[k] => ByStash(ops[k].stash) # 0

----------------------------------------------------------------------------
(* The Execution cron callback of startExecutionJob, and the DelayedTx rows *)

\* Execution callbacks that may be in progress at once (the callback has no
\* `running` flag)
MaxExecutions == 2
\* rows addDelayedTx saves in one behaviour
MaxDelayedTxs == 2

\* the block numbers, controllers and target lists of announcements
AnnouncedAt == {MaxBlock - 11, MaxBlock - 10}
Controllers == {"c1", "c2"}
TargetLists == {<<"s1">>, <<"s2">>}

Execs == BagToSet(execs)
ReplaceExec(t, u) == (execs (-) SetToBag({t})) (+) SetToBag({u})

\* db.addDelayedTx: saves one row
addDelayedTx(number, controller, targets) ==
    /\ announced < MaxDelayedTxs
    /\ delayedTxs' = Append(delayedTxs,
           [number |-> number, controller |-> controller, targets |-> targets,
            callHash |-> announced + 1])
    /\ announced' = announced + 1
    /\ UNCHANGED <<block, execs, notExecVars>>

\* the chain produces a block
NewBlock ==
    /\ block < MaxBlock
    /\ block' = block + 1
    /\ UNCHANGED <<delayedTxs, announced, execs, notExecVars>>

\* db.getCandidate(stashOrName): the document with that stash, else with that
\* name, else null (0)
getCandidate(stashOrName) ==
    IF ByStash(stashOrName) # 0 THEN ByStash(stashOrName) ELSE ByName(stashOrName)

\* the cron fires: the callback reads the best block's number
ExecutionTick ==
    /\ BagCardinality(execs) < MaxExecutions
    /\ execs' = execs (+) SetToBag({[pc |-> "getAllDelayedTxs", number |-> block,
                                    allDelayed |-> <<>>, idx |-> 0,
                                    attempted |-> {}, sent |-> {}]})
    /\ UNCHANGED <<delayedTxs, announced, block, notExecVars>>

\* the for loop moves to row i of allDelayed, or the callback returns
NextRow(t, i) ==
    [t EXCEPT !.idx = i,
              !.pc = IF i > Len(t.allDelayed) THEN "resolved" ELSE "shouldExecute"]

\* allDelayed = await db.getAllDelayedTxs()
getAllDelayedTxs(t) ==
    /\ t.pc = "getAllDelayedTxs"
    /\ execs' = ReplaceExec(t, NextRow([t EXCEPT !.allDelayed = delayedTxs], 1))
    /\ UNCHANGED <<delayedTxs, announced, block, notExecVars>>

\* timeDelayBlocks of startExecutionJob: config.proxy.timeDelayBlocks when it
\* is truthy, else the default
ExecutionDelay ==
    IF "timeDelayBlocks" \in DOMAIN proxy /\ proxy.timeDelayBlocks # 0
    THEN proxy.timeDelayBlocks
    ELSE TIME_DELAY_BLOCKS

shouldExecute(dataNum, number) == dataNum + ExecutionDelay <= number

\* the test of one row, and the lookup of its nominator: nomGroup.find throws
\* a TypeError when no group holds the row's controller
ExamineRow(t) ==
    /\ t.pc = "shouldExecute"
    /\ LET data == t.allDelayed[t.idx]
       IN  execs' = ReplaceExec(t,
               IF ~shouldExecute(data.number, t.number) THEN NextRow(t, t.idx + 1)
               ELSE IF data.controller \notin nominatorGroups
                    THEN [t EXCEPT !.pc = "rejected"]
                    ELSE [t EXCEPT !.pc = "sendStakingTx"])
    /\ UNCHANGED <<delayedTxs, announced, block, notExecVars>>

\* didSend = await nominator.sendStakingTx(tx, targets)
sendStakingTx(t, didSend) ==
    /\ t.pc = "sendStakingTx"
    /\ execs' = ReplaceExec(t,
           IF didSend
           THEN [t EXCEPT !.attempted = @ \cup {t.idx}, !.sent = @ \cup {t.idx},
                          !.pc = "getCandidate"]
           ELSE NextRow([t EXCEPT !.attempted = @ \cup {t.idx}], t.idx + 1))
    /\ UNCHANGED <<delayedTxs, announced, block, notExecVars>>

\* the message of a submitted row: `name.name` throws a TypeError when
\* db.getCandidate returns null for one of the targets
BuildMessage(t) ==
    /\ t.pc = "getCandidate"
    /\ LET targets == t.allDelayed[t.idx].targets
       IN  execs' = ReplaceExec(t,
               IF \E n \in 1..Len(targets) : getCandidate(targets[n]) = 0
               THEN [t EXCEPT !.pc = "rejected"]
               ELSE [t EXCEPT !.pc = "deleteDelayedTx"])
    /\ UNCHANGED <<delayedTxs, announced, block, notExecVars>>

\* deleteOne: the rows without the first one that matches
DeleteOne(rows, number, controller) ==
    LET hits == {i \in 1..Len(rows) :
                    rows[i].number = number /\ rows[i].controller = controller}
    IN  IF hits = {} THEN rows
        ELSE [i \in 1..(Len(rows) - 1) |->
                 IF i < First(hits) THEN rows[i] ELSE rows[i + 1]]

\* await db.deleteDelayedTx(dataNum, controller)
deleteDelayedTx(t) ==
    /\ t.pc = "deleteDelayedTx"
    /\ LET data == t.allDelayed[t.idx]
       IN  delayedTxs' = DeleteOne(delayedTxs, data.number, data.controller)
    /\ execs' = ReplaceExec(t, NextRow(t, t.idx + 1))
    /\ UNCHANGED <<announced, block, notExecVars>>

\* the promise of a settled callback is dropped
ExecutionDropped(t) ==
    /\ Settled(t)
    /\ execs' = execs (-) SetToBag({t})
    /\ UNCHANGED <<delayedTxs, announced, block, notExecVars>>

NextExecution ==
    \/ \E number \in AnnouncedAt, controller \in Controllers, targets \in TargetLists :
           addDelayedTx(number, controller, targets)
    \/ NewBlock
    \/ ExecutionTick
    \/ \E t \in Execs : getAllDelayedTxs(t)
    \/ \E t \in Execs : ExamineRow(t)
    \/ \E t \in Execs, didSend \in BOOLEAN : sendStakingTx(t, didSend)
    \/ \E t \in Execs : BuildMessage(t)
    \/ \E t \in Execs : deleteDelayedTx(t)
    \/ \E t \in Execs : ExecutionDropped(t)

SpecExecution == Init /\ [][NextExecution]_vars

----------------------------------------------------------------------------
(* Claims about the Execution callback *)

\* C11: a callback that has returned or failed has attempted exactly the rows
\* of its snapshot with number + timeDelayBlocks <= the block number it read.
C11_AttemptedIffDue ==
    \A t \in Execs :
        Settled(t) =>
            \A i \in 1..Len(t.allDelayed) :
                i \in t.attempted <=> t.allDelayed[i].number + timeDelayBlocks <= t.number

\* C12: a row whose submission succeeded is no longer in the store when the
\* callback that submitted it has returned or failed.
C12_SubmittedRowDeleted ==
    \A t \in Execs :
        Settled(t) =>
            \A i \in t.sent :
                \A r \in 1..Len(delayedTxs) : delayedTxs[r] # t.allDelayed[i]

\* the callbacks, in progress or just settled, whose submission of the row
\* saved as the h-th one has succeeded
SubmittedBy(h) ==
    {t \in Execs : \E i \in t.sent : t.allDelayed[i].callHash = h}

\* C36: no two Execution callbacks submit the transaction of the same
\* DelayedTx row: while one is between reading the row and deleting it, no
\* other one submits it, and the row is submitted successfully at most once.
C36_RowSubmittedOnce ==
    \A h \in 1..announced :
        BagCardinality([t \in SubmittedBy(h) |-> execs[t]]) <= 1

----------------------------------------------------------------------------
(* The EraPoints cron callback, eraPointsJob, and the era collections *)

RECURSIVE SumPoints(_)
SumPoints(validators) ==
    IF validators = <<>> THEN 0
    ELSE Head(validators).eraPoints + SumPoints(Tail(validators))

\* chaindata.getTotalEraPoints(era): {era, total, validators}
ChainTotal(era) == SumPoints(chainPoints[era])

\* the validators of the list that earn reward points after an era has started
Authors == {1}

\* the chain credits reward points to a validator of the active era
RewardPoints(n) ==
    /\ \E l \in 1..(Len(PointLevels) - 1) :
           /\ chainPoints[activeEra][n].eraPoints = PointLevels[l]
           /\ chainPoints' = [chainPoints EXCEPT
                                 ![activeEra][n].eraPoints = PointLevels[l + 1]]
    /\ UNCHANGED <<eraPoints, totalEraPoints, eraStats, activeEra, eraRun, eraWrites,
                   running, failures, notEraVars>>

\* the chain starts the next era
NewEra ==
    /\ activeEra + 1 \in DOMAIN chainPoints
    /\ activeEra' = activeEra + 1
    /\ UNCHANGED <<eraPoints, totalEraPoints, eraStats, chainPoints, eraRun,
                   eraWrites, running, failures, notEraVars>>

\* db.getTotalEraPoints(era): findOne({era}), NoRow for null
getTotalEraPoints(era) ==
    LET hits == {k \in 1..Len(totalEraPoints) : totalEraPoints[k].era = era}
    IN  IF hits = {} THEN NoRow ELSE totalEraPoints[First(hits)]

\* a findOne that never finds the row
FindNoEraPoints(era, address) == 0

\* eraPointsModel.findOne({address, era}): the index of the row, 0 for null
FindEraPoints(era, address) ==
    First({k \in 1..Len(eraPoints) :
              eraPoints[k].era = era /\ eraPoints[k].address = address})

\* a loop condition that stops above era 0
InWindowAboveZero(i, active) == i > active - Window /\ i > 0

\* the loop condition of eraPointsJob
InWindow(i, active) == i > active - Window /\ i >= 0

\* a test that skips no stored era
NeverComplete(erapoints) == FALSE

\* a test that skips a stored era only above the threshold
CompleteAbove(erapoints) ==
    /\ erapoints # NoRow
    /\ erapoints.totalEraPoints > Threshold
    /\ "median" \in DOMAIN erapoints
    /\ erapoints.median.num # 0

\* the test of eraPointsJob that skips a stored era
Complete(erapoints) ==
    /\ erapoints # NoRow
    /\ erapoints.totalEraPoints >= Threshold
    /\ "median" \in DOMAIN erapoints
    /\ erapoints.median.num # 0

\* the for loop of eraPointsJob moves to era i, or ends and the job turns to
\* the active era
LoopTest(r, i) ==
    IF InWindow(i, r.activeEra)
    THEN [r EXCEPT !.i = i, !.pc = "getTotalEraPoints"]
    ELSE [r EXCEPT !.i = i, !.pc = "chain", !.era = r.activeEra, !.erapoints = NoRow]

\* the cron fires while no run is in progress: running = true, and
\* eraPointsJob reads the active era index (the cron period is minutes: the
\* updates the previous run issued have reached the store by then)
EraPointsTick ==
    /\ ~running["EraPoints"]
    /\ eraWrites = {}
    /\ running' = [running EXCEPT !["EraPoints"] = TRUE]
    /\ eraRun' = LoopTest([IdleRun EXCEPT !.activeEra = activeEra], activeEra - 1)
    /\ UNCHANGED <<eraPoints, totalEraPoints, eraStats, activeEra, chainPoints,
                   eraWrites, failures, notEraVars>>

\* erapoints = await db.getTotalEraPoints(i), and the test that skips the era
ReadStoredEra ==
    /\ eraRun.pc = "getTotalEraPoints"
    /\ LET erapoints == getTotalEraPoints(eraRun.i)
           r == [eraRun EXCEPT !.reads = @ \cup {eraRun.i}, !.erapoints = erapoints]
       IN  eraRun' = IF Complete(erapoints) THEN LoopTest(r, r.i - 1)
                     ELSE [r EXCEPT !.pc = "chain", !.era = r.i]
    /\ UNCHANGED <<eraPoints, totalEraPoints, eraStats, activeEra, chainPoints,
                   eraWrites, running, failures, notEraVars>>

\* {era, total, validators} = await chaindata.getTotalEraPoints(era), then
\* the setEraPoints loop of db.setTotalEraPoints, which has no turn when the
\* list is empty
FetchEra ==
    /\ eraRun.pc = "chain"
    /\ eraRun' = [eraRun EXCEPT !.fetches = @ \cup {eraRun.era},
                                !.total = ChainTotal(eraRun.era),
                                !.validators = chainPoints[eraRun.era],
                                !.v = 1,
                                !.pc = IF chainPoints[eraRun.era] = <<>>
                                       THEN "findOne" ELSE "setEraPoints"]
    /\ UNCHANGED <<eraPoints, totalEraPoints, eraStats, activeEra, chainPoints,
                   eraWrites, running, failures, notEraVars>>

\* db.setEraPoints(era, points, address) for validator v of the list: nothing
\* when the stored points are the same, a saved row when there is none, else
\* an update that is not awaited
setEraPoints ==
    /\ eraRun.pc = "setEraPoints"
    /\ LET validator == eraRun.validators[eraRun.v]
           data == FindEraPoints(eraRun.era, validator.address)
       IN  IF data = 0
           THEN /\ eraPoints' = Append(eraPoints,
                       [address |-> validator.address, era |-> eraRun.era,
                        eraPoints |-> validator.eraPoints])
                /\ UNCHANGED eraWrites
           ELSE IF eraPoints[data].eraPoints = validator.eraPoints
           THEN UNCHANGED <<eraPoints, eraWrites>>
           ELSE /\ eraWrites' = eraWrites \cup
                       {[coll |-> "EraPoints", era |-> eraRun.era,
                         address |-> validator.address,
                         set |-> [eraPoints |-> validator.eraPoints]]}
                /\ UNCHANGED eraPoints
    /\ eraRun' = IF eraRun.v < Len(eraRun.validators)
                 THEN [eraRun EXCEPT !.v = @ + 1]
                 ELSE [eraRun EXCEPT !.pc = "findOne"]
    /\ UNCHANGED <<totalEraPoints, eraStats, activeEra, chainPoints, running,
                   failures, notEraVars>>

RECURSIVE MaxPoints(_)
MaxPoints(validators) ==
    IF Len(validators) = 1 THEN validators[1].eraPoints
    ELSE LET rest == MaxPoints(Tail(validators))
         IN  IF validators[1].eraPoints > rest THEN validators[1].eraPoints ELSE rest

RECURSIVE MinPoints(_)
MinPoints(validators) ==
    IF Len(validators) = 1 THEN validators[1].eraPoints
    ELSE LET rest == MinPoints(Tail(validators))
         IN  IF validators[1].eraPoints < rest THEN validators[1].eraPoints ELSE rest

RECURSIVE GCD(_, _)
GCD(a, b) == IF b = 0 THEN a ELSE GCD(b, a % b)

\* the number n / d of a division of two whole numbers, in lowest terms
Ratio(n, d) == [num |-> n \div GCD(n, d), den |-> d \div GCD(n, d)]

\* what a function returns that ends without a return statement
undefined == [undefined |-> TRUE]

\* a median that is the upper one of the two middle points of a list of even
\* length
getUpperMiddle(validators) ==
    LET array == SortSeq([n \in 1..Len(validators) |-> validators[n].eraPoints],
                         LAMBDA a, b : a < b)
    IN  IF Len(array) >= 1 THEN Ratio(array[Len(array) \div 2 + 1], 1)
        ELSE undefined

\* getMedian of setTotalEraPoints: the points sorted in ascending order, then
\* the middle one or the mean of the two middle ones, as the number it is;
\* on an empty array an error is logged and nothing is returned
getMedian(validators) ==
    LET array == SortSeq([n \in 1..Len(validators) |-> validators[n].eraPoints],
                         LAMBDA a, b : a < b)
        length == Len(array)
    IN  IF length >= 1
        THEN IF length % 2 = 0
             THEN Ratio(array[length \div 2] + array[length \div 2 + 1], 2)
             ELSE Ratio(array[(length - 1) \div 2 + 1], 1)
        ELSE undefined

\* the fields setTotalEraPoints computes and stores
TotalEraPointsFields(total, validators) ==
    [totalEraPoints |-> total, validatorsEraPoints |-> validators,
     median |-> getMedian(validators),
     average |-> Ratio(SumPoints(validators), Len(validators)),
     max |-> MaxPoints(validators), min |-> MinPoints(validators)]

\* `data.total == total` of setTotalEraPoints: the rows are stored with the
\* field totalEraPoints, and data.total is undefined
SameTotal(data, total) == IF "total" \in DOMAIN data THEN data.total = total ELSE FALSE

\* a run that has returned or failed: its locals are gone, what it read and
\* fetched is kept
Ended(r, pc) ==
    [IdleRun EXCEPT !.pc = pc, !.activeEra = r.activeEra, !.reads = r.reads,
                    !.fetches = r.fetches]

\* eraPointsJob after setTotalEraPoints has returned: the next era of the
\* loop, or the end of the job after the active era, and running = false
AfterSetTotalEraPoints ==
    IF InWindow(eraRun.i, eraRun.activeEra)
    THEN /\ eraRun' = LoopTest(eraRun, eraRun.i - 1)
         /\ UNCHANGED running
    ELSE /\ eraRun' = Ended(eraRun, "resolved")
         /\ running' = [running EXCEPT !["EraPoints"] = FALSE]

\* db.setTotalEraPoints after its setEraPoints loop: findOne({era}), then a
\* saved row when there is none, else an update that is not awaited. With an
\* empty list getAverage reduces an empty array without an initial value and
\* throws before getMedian is called: nothing is stored, the callback of the
\* job catches the error, and running = false
setTotalEraPoints ==
    /\ eraRun.pc = "findOne"
    /\ LET data == getTotalEraPoints(eraRun.era)
           fields == TotalEraPointsFields(eraRun.total, eraRun.validators)
       IN  IF data # NoRow /\ SameTotal(data, eraRun.total) /\ data.median.num # 0
           THEN /\ UNCHANGED <<totalEraPoints, eraWrites>>
                /\ AfterSetTotalEraPoints
           ELSE IF eraRun.validators = <<>>
           THEN /\ eraRun' = Ended(eraRun, "rejected")
                /\ running' = [running EXCEPT !["EraPoints"] = FALSE]
                /\ UNCHANGED <<totalEraPoints, eraWrites>>
           ELSE IF data = NoRow
           THEN /\ totalEraPoints' = Append(totalEraPoints,
                       [era |-> eraRun.era] @@ fields)
                /\ UNCHANGED eraWrites
                /\ AfterSetTotalEraPoints
           ELSE /\ eraWrites' = eraWrites \cup
                       {[coll |-> "TotalEraPoints", era |-> eraRun.era,
                         address |-> "", set |-> fields]}
                /\ UNCHANGED totalEraPoints
                /\ AfterSetTotalEraPoints
    /\ UNCHANGED <<eraPoints, eraStats, activeEra, chainPoints, failures, notEraVars>>

\* a rejection that leaves the callback: no catch, and running stays true
EraRunRejectedUncaught ==
    /\ eraRun.pc \in {"getTotalEraPoints", "chain", "setEraPoints", "findOne"}
    /\ eraRun' = Ended(eraRun, "rejected")
    /\ UNCHANGED <<eraPoints, totalEraPoints, eraStats, activeEra, chainPoints,
                   eraWrites, running, failures, notEraVars>>

\* an awaited chain or store call of the run rejects: the callback catches
\* the error, and running = false
EraRunRejected ==
    /\ eraRun.pc \in {"getTotalEraPoints", "chain", "setEraPoints", "findOne"}
    /\ eraRun' = Ended(eraRun, "rejected")
    /\ running' = [running EXCEPT !["EraPoints"] = FALSE]
    /\ UNCHANGED <<eraPoints, totalEraPoints, eraStats, activeEra, chainPoints,
                   eraWrites, failures, notEraVars>>

\* findOneAndUpdate on a collection: the first row that matches gets the fields
UpdateFirst(rows, hits, set) ==
    IF hits = {} THEN rows
    ELSE [rows EXCEPT ![First(hits)] =
             [f \in DOMAIN @ |-> IF f \in DOMAIN set THEN set[f] ELSE @[f]]]

\* the store applies an update that was not awaited
ApplyEraWrite(w) ==
    /\ w \in eraWrites
    /\ eraWrites' = eraWrites \ {w}
    /\ eraPoints' =
           IF w.coll = "EraPoints"
           THEN UpdateFirst(eraPoints,
                    {k \in 1..Len(eraPoints) : eraPoints[k].era = w.era
                                               /\ eraPoints[k].address = w.address},
                    w.set)
           ELSE eraPoints
    /\ totalEraPoints' =
           IF w.coll = "TotalEraPoints"
           THEN UpdateFirst(totalEraPoints,
                    {k \in 1..Len(totalEraPoints) : totalEraPoints[k].era = w.era},
                    w.set)
           ELSE totalEraPoints
    /\ eraStats' =
           IF w.coll = "EraStats"
           THEN UpdateFirst(eraStats,
                    {k \in 1..Len(eraStats) : eraStats[k].era = w.era}, w.set)
           ELSE eraStats
    /\ UNCHANGED <<activeEra, chainPoints, eraRun, running, failures, notEraVars>>

\* what eraStatsJob counts in the candidates it is given: all of them, the
\* valid ones, the active ones
StatsObserved == {<<1, 0, 0>>, <<2, 1, 1>>}

\* a comparison that never finds the stored stats equal
NeverSameStats(data, totalNodes, valid, active) == FALSE

\* the test of setEraStats that returns without a write
SameStats(data, totalNodes, valid, active) ==
    data.totalNodes = totalNodes /\ data.valid = valid /\ data.active = active

\* the EraStats cron callback: eraStatsJob reads the current era and calls
\* db.setEraStats, which does nothing when the stored stats are the same, saves
\* a row when there is none, else issues an update that is not awaited (the
\* field `when`, a timestamp, is left out). It shares no collection with
\* eraPointsJob, and the model runs it between the runs of that job.
eraStatsJob(totalNodes, valid, active) ==
    /\ ~running["EraPoints"]
    /\ eraWrites = {}
    /\ LET hits == {k \in 1..Len(eraStats) : eraStats[k].era = activeEra}
       IN  IF hits = {}
           THEN /\ eraStats' = Append(eraStats,
                       [era |-> activeEra, totalNodes |-> totalNodes,
                        valid |-> valid, active |-> active])
                /\ UNCHANGED eraWrites
           ELSE IF SameStats(eraStats[First(hits)], totalNodes, valid, active)
           THEN UNCHANGED <<eraStats, eraWrites>>
           ELSE /\ eraWrites' = eraWrites \cup
                       {[coll |-> "EraStats", era |-> activeEra, address |-> "",
                         set |-> [totalNodes |-> totalNodes, valid |-> valid,
                                  active |-> active]]}
                /\ UNCHANGED eraStats
    /\ UNCHANGED <<eraPoints, totalEraPoints, activeEra, chainPoints, eraRun,
                   running, failures, notEraVars>>

NextEraPoints ==
    \/ \E n \in Authors : RewardPoints(n)
    \/ NewEra
    \/ EraPointsTick
    \/ ReadStoredEra
    \/ FetchEra
    \/ setEraPoints
    \/ setTotalEraPoints
    \/ EraRunRejected
    \/ \E w \in eraWrites : ApplyEraWrite(w)

SpecEraPoints == Init /\ [][NextEraPoints]_vars

\* the EraPoints callback on a chain that stands still, with runs that do not
\* fail
NextWindow ==
    \/ EraPointsTick
    \/ ReadStoredEra
    \/ FetchEra
    \/ setEraPoints
    \/ setTotalEraPoints
    \/ \E w \in eraWrites : ApplyEraWrite(w)

\* the awaited chain and store calls of a run return, and the run goes on
SpecWindow ==
    /\ InitWindow
    /\ [][NextWindow]_vars
    /\ WF_vars(ReadStoredEra \/ FetchEra \/ setEraPoints \/ setTotalEraPoints)

\* the EraPoints and the EraStats callbacks, with runs that do not fail
NextEraRows ==
    \/ \E n \in Authors : RewardPoints(n)
    \/ NewEra
    \/ EraPointsTick
    \/ ReadStoredEra
    \/ FetchEra
    \/ setEraPoints
    \/ setTotalEraPoints
    \/ \E w \in eraWrites : ApplyEraWrite(w)
    \/ \E o \in StatsObserved : eraStatsJob(o[1], o[2], o[3])

SpecEraRows == Init /\ [][NextEraRows]_vars

----------------------------------------------------------------------------
(* Claims about the era collections *)

\* C13: no two rows of EraPoints have the same era and the same address,
\* whatever runs of eraPointsJob have completed or failed.
C13_OneRowPerEraAddress ==
    \A j, k \in 1..Len(eraPoints) :
        (eraPoints[j].era = eraPoints[k].era
            /\ eraPoints[j].address = eraPoints[k].address) => j = k

\* a run has failed midway through the validators of an era of which an
\* earlier run had saved only a part
C13_Witness ==
    /\ eraRun.pc = "rejected"
    /\ eraRun.fetches # {}
    /\ \E e \in eraRun.fetches :
           /\ FindEraPoints(e, Validators[1]) # 0
           /\ FindEraPoints(e, Validators[2]) = 0
    /\ Len(eraPoints) > Len(Validators)

\* a row read from TotalEraPoints with a total of at least 70000 and a median
Final(row) ==
    /\ row # NoRow
    /\ row.totalEraPoints >= 70000
    /\ "median" \in DOMAIN row
    /\ row.median.num # 0

\* this step saves a TotalEraPoints row or issues an update of one
WritesTotalEraPoints ==
    \/ Len(totalEraPoints') > Len(totalEraPoints)
    \/ \E w \in eraWrites' \ eraWrites : w.coll = "TotalEraPoints"

Populated ==
    /\ eraWrites = {}
    /\ \A e \in 0..activeEra :
           /\ getTotalEraPoints(e) =
                  [era |-> e] @@ TotalEraPointsFields(ChainTotal(e), chainPoints[e])
           /\ \A n \in 1..Len(chainPoints[e]) :
                  LET k == FindEraPoints(e, chainPoints[e][n].address)
                  IN  IF k = 0 THEN FALSE
                      ELSE eraPoints[k].eraPoints = chainPoints[e][n].eraPoints

\* C15: while the store holds every era of the window and the active era with
\* the values the chain reports, a run of eraPointsJob writes nothing: it
\* saves no row and issues no update.
C15_NoWriteWhenPopulated ==
    [][Populated =>
           /\ eraPoints' = eraPoints
           /\ totalEraPoints' = totalEraPoints
           /\ eraWrites' \subseteq {w \in eraWrites' : w.coll = "EraStats"}]_vars

\* the era collections and the pending updates
eraStore == <<eraPoints, totalEraPoints, eraStats, eraWrites>>

Matches(rows, w) ==
    {k \in 1..Len(rows) :
        /\ rows[k].era = w.era
        /\ "address" \in DOMAIN rows[k] => rows[k].address = w.address}

\* in this step the collection keeps its rows and their keys, gains at most
\* rows with a new key, and a row that changes takes the fields of a pending
\* update for its key
UpdatedInPlace(rows, rowsNext, coll) ==
    /\ Len(rowsNext) >= Len(rows)
    /\ \A k \in 1..Len(rows) :
           \/ rowsNext[k] = rows[k]
           \/ \E w \in eraWrites :
                  /\ w.coll = coll
                  /\ k \in Matches(rows, w)
                  /\ rowsNext[k] = [f \in DOMAIN rows[k] |->
                         IF f \in DOMAIN w.set THEN w.set[f] ELSE rows[k][f]]
    /\ \A k \in (Len(rows) + 1)..Len(rowsNext) :
           Matches(rows, [era |-> rowsNext[k].era,
                          address |-> IF "address" \in DOMAIN rowsNext[k]
                                      THEN rowsNext[k].address ELSE ""]) = {}

----------------------------------------------------------------------------
(* Claims about the window of eraPointsJob *)

\* C16: a run that starts at an active era below 84 reads the store and the
\* chain for no negative era, has descended to era 0 when it turns to the
\* active era, and returns.
C16_DescentStopsAtZero ==
    /\ [](eraRun.activeEra < 84 =>
              /\ \A e \in eraRun.reads \cup eraRun.fetches : e >= 0
              /\ (eraRun.pc = "resolved" \/ eraRun.era = eraRun.activeEra) =>
                     eraRun.reads = 0..(eraRun.activeEra - 1))
    /\ (running["EraPoints"] /\ eraRun.activeEra < 84) ~> (eraRun.pc = "resolved")

\* a run at active era 0 has returned after fetching the active era alone,
\* and so has one at active era 83 after reading the eras 82 down to 0
C16_Witness ==
    /\ eraRun.pc = "resolved"
    /\ \/ eraRun.activeEra = 0 /\ eraRun.reads = {} /\ eraRun.fetches = {0}
       \/ eraRun.activeEra = 83 /\ eraRun.reads = 0..82

\* C17: a run that has returned has read the stored row of every era i with
\* max(0, activeEra - 84) <= i <= activeEra - 1, and has fetched the active era.
C17_ExaminesPrior84Eras ==
    eraRun.pc = "resolved" =>
        /\ eraRun.reads = {i \in 0..(eraRun.activeEra - 1) : i >= eraRun.activeEra - 84}
        /\ eraRun.activeEra \in eraRun.fetches

----------------------------------------------------------------------------
(* The ClearOffline cron callback: db.clearAccumulated *)

\* the range in which the model lets offlineAccumulated move
MaxAccumulated == 1

\* db.allCandidates(): find({stash: /.*/}), the documents that have a stash
allCandidates == SelectSeq(candidates, LAMBDA d : d.stash # "null")

\* db.clearAccumulated, called and not awaited by the ClearOffline callback:
\* it reads allCandidates() and goes through the documents it has read; for
\* each one read with offlineAccumulated > 0 it awaits an update, by name, of
\* offlineAccumulated to 0
clearAccumulated(k) ==
    /\ ops[k] = NoOp
    /\ LET stale == SelectSeq(allCandidates, LAMBDA d : d.offlineAccumulated > 0)
       IN  ops' = [ops EXCEPT ![k] =
                [op |-> "clearAccumulated",
                 updates |-> [n \in 1..Len(stale) |->
                                 Update([by |-> "name", key |-> stale[n].name],
                                        [offlineAccumulated |-> 0], 0)]]]
    /\ UNCHANGED <<candidates, nominators, inflight, notStoreVars>>

\* the store executes the update clearAccumulated is awaiting, or the loop has
\* ended and clearAccumulated returns true
clearAccumulatedNext(k) ==
    /\ ops[k].op = "clearAccumulated"
    /\ IF ops[k].updates = <<>>
       THEN /\ ops' = [ops EXCEPT ![k] = NoOp]
            /\ UNCHANGED candidates
       ELSE /\ \E i \in Targets(Head(ops[k].updates).filter) :
                  candidates' = Applied(Head(ops[k].updates), i)
            /\ ops' = [ops EXCEPT ![k].updates = Tail(@)]
    /\ UNCHANGED <<nominators, inflight, notStoreVars>>

\* offlineAccumulated is kept within the model's range
Accumulable == \A i \in 1..Len(candidates) :
                   candidates[i].offlineAccumulated < MaxAccumulated

\* the telemetry client reports nodes offline at time 1 and online at time 2,
\* while the ClearOffline callback fires
NextClear ==
    \/ \E name \in Names :
           Reportable(name) /\ Accumulable
               /\ reportOnline("telemetry", 1, name, "v1", 2)
    \/ Retractable(1) /\ reportOffline("telemetry", 1, 1)
    \/ Accumulable /\ reportBestBlock("telemetry", 1, 2)
    \/ AwaitedCommand("telemetry")
    \/ clearAccumulated("clearOffline")
    \/ clearAccumulatedNext("clearOffline")

SpecClear == Init /\ [][NextClear]_vars

\* C20: when clearAccumulated returns, every document of the candidate
\* collection has offlineAccumulated = 0.
C20_AllClearedOnReturn ==
    [][(ops["clearOffline"].op = "clearAccumulated" /\ ops'["clearOffline"] = NoOp) =>
           \A i \in 1..Len(candidates') : candidates'[i].offlineAccumulated = 0]_vars

----------------------------------------------------------------------------
(* The ValidatorPref cron callback: validatorPrefJob *)

\* commission == 0 ? 0 : commission / Math.pow(10, 7)
formattedCommission(commission) ==
    IF commission = 0 THEN Ratio(0, 1) ELSE Ratio(commission, 10^7)

\* the fields validatorPrefJob sets for a candidate, in the order of the loop
\* body
PrefFields == <<"identity", "commission", "controller", "rewardDestination",
                "bonded">>

\* what the job reads from the chain for the field and hands to the setter
PrefValue(field, stash) ==
    IF field = "commission" THEN formattedCommission(chain[stash].commission)
    ELSE chain[stash][field]

\* an update that also counts the write in nodeRefs
PrefUpdateCounting(field, stash, value) ==
    Update([by |-> "stash", key |-> stash], [f \in {field} |-> value], 1)

\* the findOneAndUpdate of setIdentity, setCommission, setController,
\* setRewardDestination and setBonded: by stash, the one field, no upsert
PrefUpdate(field, stash, value) ==
    Update([by |-> "stash", key |-> stash], [f \in {field} |-> value], 0)

\* validatorPrefJob after the setter at field f of candidate n has returned:
\* the next setter, or the end of the job and running = false.  The run that
\* has returned leaves the collection as it is now (`after`), that the chain
\* is as the run has read it (`settled`), and whether the run before it had
\* returned with the chain already so (`twice`).
AfterPrefSetter ==
    IF prefRun.n = Len(prefRun.stashes) /\ prefRun.f = Len(PrefFields)
    THEN /\ prefRun' = [IdlePref EXCEPT !.after = candidates',
                                        !.settled = TRUE,
                                        !.twice = prefRun.settled]
         /\ running' = [running EXCEPT !["ValidatorPref"] = FALSE]
    ELSE /\ prefRun' = IF prefRun.f = Len(PrefFields)
                       THEN [prefRun EXCEPT !.n = @ + 1, !.f = 1]
                       ELSE [prefRun EXCEPT !.f = @ + 1]
         /\ UNCHANGED running

\* the cron fires while no run is in progress: running = true, the callback
\* reads db.allCandidates() and calls validatorPrefJob with what it has read
ValidatorPrefTick ==
    /\ ~running["ValidatorPref"]
    /\ prefRun.pc = "idle"
    /\ IF allCandidates = <<>>
       THEN UNCHANGED <<running, prefRun>>
       ELSE /\ running' = [running EXCEPT !["ValidatorPref"] = TRUE]
            /\ prefRun' = [prefRun EXCEPT
                  !.pc = "loop", !.n = 1, !.f = 1,
                  !.stashes = [i \in 1..Len(allCandidates) |-> allCandidates[i].stash]]
    /\ UNCHANGED <<calls, failures, crashed, candidates, nominators, ops, inflight,
                   sessions, chain, execVars, eraVars, lastVars, nominationVars, rewardVars,
                   cancelVars>>

\* one chain read of the loop body and the setter that stores what was read
validatorPrefStep ==
    /\ prefRun.pc = "loop"
    /\ LET stash == prefRun.stashes[prefRun.n]
           field == PrefFields[prefRun.f]
       IN  candidates' = Applied(PrefUpdate(field, stash, PrefValue(field, stash)),
                                 ByStash(stash))
    /\ AfterPrefSetter
    /\ UNCHANGED <<calls, failures, crashed, nominators, ops, inflight,
                   sessions, chain, execVars, eraVars, lastVars, nominationVars, rewardVars,
                   cancelVars>>

\* a chain read or a setter rejects: validatorPrefJob and the callback reject
\* with it, and running stays true
PrefRunRejected ==
    /\ prefRun.pc = "loop"
    /\ prefRun' = [IdlePref EXCEPT !.pc = "rejected", !.after = prefRun.after]
    /\ UNCHANGED <<jobVars, storeVars, sessions, chain, execVars, eraVars, lastVars,
                   nominationVars, rewardVars, cancelVars>>

\* the chain moves: one validator's preferences change (a run takes seconds
\* and its chain reads are of one state of the chain)
ChainChange ==
    /\ prefRun.pc # "loop"
    /\ \E s \in Stashes, c \in ChainPrefs :
          /\ c # chain[s]
          /\ chain' = [chain EXCEPT ![s] = c]
    /\ prefRun' = [prefRun EXCEPT !.settled = FALSE, !.twice = FALSE]
    /\ UNCHANGED <<jobVars, storeVars, sessions, execVars, eraVars, lastVars,
                   nominationVars, rewardVars, cancelVars>>

\* a store met with one candidate, with two, or with a candidate and a node
\* that telemetry has reported and the configuration does not name
InitPref ==
    /\ InitJobs /\ InitExec /\ InitEra /\ InitLater
    /\ candidates \in {<<NewCandidate("n1", "s1")>>,
                       <<NewCandidate("n1", "s1"), NewCandidate("n2", "s2")>>,
                       <<NewNode(1, "n2", "v1", 1), NewCandidate("n1", "s1")>>}
    /\ nominators = <<NewNominator("a1")>>
    /\ ops = [k \in Callers |-> NoOp]
    /\ inflight = {}
    /\ sessions = {}

NextPref ==
    \/ ValidatorPrefTick
    \/ validatorPrefStep
    \/ PrefRunRejected
    \/ ChainChange

SpecPref == InitPref /\ [][NextPref]_vars

\* C21: a validatorPrefJob run that returns after the run before it has
\* returned, the chain reporting the same of every validator since that run
\* began, leaves every candidate record as that run left it.
C21_SecondRunChangesNothing ==
    [][(prefRun.pc = "loop" /\ prefRun'.pc = "idle" /\ prefRun.settled)
          => candidates' = prefRun.after]_vars

\* a second run has returned over two candidates, one of them with a
\* commission of 2.5 per cent
C21_Witness ==
    /\ prefRun.twice
    /\ Len(candidates) = 2
    /\ \E i \in 1..Len(candidates) :
          /\ candidates[i].stash \in Stashes
          /\ chain[candidates[i].stash].commission = 25000000
          /\ candidates[i].commission = Ratio(5, 2)

----------------------------------------------------------------------------
(* The Nomination collection: db.setNomination *)

\* nomination rows issued and not awaited that may be pending at once
MaxNomWrites == 1

\* the nominator addresses a caller calls setNomination with (the era is 1)
CallerAddresses == [k \in NominationCallers |->
                       IF k = "n1" THEN {"a1"} ELSE {"a1", "a2"}]
\* what a caller passes as targets, and as blockHash when it has one ("" is
\* a missing block hash)
CallerTargets == [k \in NominationCallers |-> IF k = "n1" THEN <<"s1">> ELSE <<"s2">>]
CallerHash == [k \in NominationCallers |-> IF k = "n1" THEN "h1" ELSE "h2"]

\* findOne({address, era}) on the Nomination collection: the index of the
\* first row that matches, 0 for null
FindNomination(address, era) ==
    First({i \in 1..Len(nominations) :
              nominations[i].address = address /\ nominations[i].era = era})

\* a test that takes every row to be without a block hash
NeverHasBlockHash(data) == FALSE

\* `data.blockHash` as a condition: a row that has a block hash
HasBlockHash(data) == data.blockHash # ""

\* the rows of the pair that have their block hash
Sealed(address, era) ==
    {i \in 1..Len(nominations) :
        /\ nominations[i].address = address /\ nominations[i].era = era
        /\ nominations[i].blockHash # ""}

\* setNomination up to its first await: findOne({address, era}); a row that
\* has a block hash ends the call.  (The timestamp and bonded fields are
\* written wherever validators and blockHash are.)  `sealed` keeps the rows
\* of the pair that had their block hash when the call was made.
setNomination(k, address, era, targets, blockHash) ==
    /\ nomCalls[k] = NoOp
    /\ LET i == FindNomination(address, era)
       IN  nomCalls' = [nomCalls EXCEPT ![k] =
              IF i # 0 /\ HasBlockHash(nominations[IF i = 0 THEN 1 ELSE i])
              THEN NoOp
              ELSE [op |-> "setNomination", data |-> i # 0,
                    row |-> [address |-> address, era |-> era,
                             validators |-> targets, blockHash |-> blockHash],
                    sealed |-> Sealed(address, era)]]
    /\ UNCHANGED <<nominations, nomWrites, jobVars, storeVars, sessions, execVars,
                   eraVars, lastVars, prefVars, rewardVars, cancelVars>>

\* setNomination after findOne: with no row read, a new row is saved and the
\* call returns when it is stored; otherwise findOneAndUpdate is called with
\* the fields as its only argument and is not awaited
setNominationNext(k) ==
    /\ nomCalls[k] # NoOp
    /\ IF nomCalls[k].data
       THEN /\ Cardinality(nomWrites) < MaxNomWrites
            /\ nomWrites' = nomWrites \cup
                  {[set |-> nomCalls[k].row, sealed |-> nomCalls[k].sealed]}
            /\ UNCHANGED nominations
       ELSE /\ nominations' = Append(nominations, nomCalls[k].row)
            /\ UNCHANGED nomWrites
    /\ nomCalls' = [nomCalls EXCEPT ![k] = NoOp]
    /\ UNCHANGED <<jobVars, storeVars, sessions, execVars, eraVars, lastVars, prefVars,
                   rewardVars, cancelVars>>

\* The store executes a findOneAndUpdate that was given one argument: the
\* query layer takes the argument as the update and the conditions as empty,
\* so that the first row of the collection gets the fields, or takes it as
\* conditions with no update, so that no row changes.
ApplyNomWrite(w) ==
    /\ w \in nomWrites
    /\ nomWrites' = nomWrites \ {w}
    /\ \/ nominations' = IF nominations = <<>> THEN nominations
                         ELSE [nominations EXCEPT ![1] = w.set]
       \/ UNCHANGED nominations
    /\ UNCHANGED <<nomCalls, jobVars, storeVars, sessions, execVars, eraVars, lastVars,
                   prefVars, rewardVars, cancelVars>>

NextNomination ==
    \/ \E k \in NominationCallers :
          \E a \in CallerAddresses[k], h \in {"", CallerHash[k]} :
              setNomination(k, a, 1, CallerTargets[k], h)
    \/ \E k \in NominationCallers : setNominationNext(k)
    \/ \E w \in nomWrites : ApplyNomWrite(w)

SpecNomination == Init /\ [][NextNomination]_vars

\* the rows of the pair that step leaves as they were
KeptRows(rows) ==
    /\ Len(nominations') >= Len(nominations)
    /\ \A i \in rows : nominations'[i] = nominations[i]

\* C22: a setNomination call for (address, era) made when a row of the pair
\* has its blockHash set changes no field of that row, neither when it is
\* made nor by what it does or issues later, and saves no row.
C22_RowWithBlockHashIsKept ==
    [][/\ \A k \in NominationCallers :
            (nomCalls[k] # NoOp /\ nomCalls'[k] = NoOp
                /\ nomCalls[k].sealed # {})
               => nominations' = nominations
       /\ \A k \in NominationCallers :
            (nomCalls[k] = NoOp /\ nomCalls'[k] # NoOp)
               => nominations' = nominations
       /\ \A w \in nomWrites \ nomWrites' : KeptRows(w.sealed)]_vars

\* a call made for a pair of which one row had its block hash, and a row
\* before it had none, has issued its update, and the row still has its hash
C22_Witness ==
    \E w \in nomWrites :
        /\ w.sealed # {}
        /\ \A i \in w.sealed : nominations[i].blockHash # ""

----------------------------------------------------------------------------
(* The candidate records: addCandidate, the clearing operations, telemetry *)

\* the highest value the model lets nodeRefs take when two nodes report
MaxRefs == 2

\* addCandidate: findOne by name, then a saved record for a name that was not
\* found, else an update by name of the configured fields.  (`stash` is the
\* address after keyring.encodeAddress; kusamaStash, skipSelfStake and bio are
\* written wherever stash is.)
addCandidate(k, name, stash) ==
    /\ ops[k] = NoOp
    /\ ops' = [ops EXCEPT ![k] =
          [op |-> "addCandidate",
           todo |-> IF ByName(name) = 0
                    THEN <<Save(NewCandidate(name, stash))>>
                    ELSE <<Update([by |-> "name", key |-> name],
                                  [stash |-> stash], 0)>>]]
    /\ UNCHANGED <<candidates, nominators, inflight, notStoreVars>>

\* fields that would take the name from a record
ClearedWithName == [name |-> "null", stash |-> "null", offlineSince |-> 0,
                    offlineAccumulated |-> 0]

\* the fields clearCandidates writes
ClearedFields == [stash |-> "null", offlineSince |-> 0, offlineAccumulated |-> 0]

\* clearCandidates: reads allCandidates() and awaits, for each record read, an
\* update by name; returns true at once when it has read none
clearCandidates(k) ==
    /\ ops[k] = NoOp
    /\ ops' = [ops EXCEPT ![k] =
          IF allCandidates = <<>> THEN NoOp
          ELSE [op |-> "clearCandidates",
                todo |-> [n \in 1..Len(allCandidates) |->
                            Update([by |-> "name", key |-> allCandidates[n].name],
                                   ClearedFields, 0)]]]
    /\ UNCHANGED <<candidates, nominators, inflight, notStoreVars>>

\* $unset of telemetryId (a number that is not set reads as 0), and of valid
\* when `fields` names it; the other fields named are not fields of the model
Unset(d, fields) ==
    [f \in DOMAIN d \ (fields \cap {"valid"}) |->
        IF f = "telemetryId" /\ f \in fields THEN 0 ELSE d[f]]

\* deleteOldCandidateFields: one update of every record
deleteOldCandidateFields(k) ==
    /\ ops[k] = NoOp
    /\ candidates' = [i \in 1..Len(candidates) |->
                         Unset(candidates[i], {"telemetryId", "valid"})]
    /\ UNCHANGED <<nominators, ops, inflight, notStoreVars>>

\* deleteOldFieldFrom(name): one awaited findOneAndUpdate by name
deleteOldFieldFrom(k, name) ==
    /\ ops[k] = NoOp
    /\ LET i == ByName(name)
       IN  candidates' = IF i = 0 THEN candidates
                         ELSE [candidates EXCEPT
                                  ![i] = Unset(candidates[i], {"telemetryId"})]
    /\ UNCHANGED <<nominators, ops, inflight, notStoreVars>>

\* clearNodeRefsFrom(name): one awaited findOneAndUpdate by name
clearNodeRefsFrom(k, name) ==
    /\ ops[k] = NoOp
    /\ candidates' = Applied(Update([by |-> "name", key |-> name],
                                    [nodeRefs |-> 0], 0), ByName(name))
    /\ UNCHANGED <<nominators, ops, inflight, notStoreVars>>

\* a node is added to the telemetry feed under a name: reportOnline
NodeAdded(id, name) ==
    /\ \A n \in sessions : n.id # id
    /\ IF ByName(name) = 0 THEN TRUE
       ELSE candidates[ByName(name)].nodeRefs < MaxRefs
    /\ reportOnline("telemetry", id, name, "v1", 1)

\* a node is removed from the telemetry feed: reportOffline (the model lets
\* nodeRefs go down to -1)
NodeRemoved(id) ==
    /\ \E n \in sessions : n.id = id
    /\ IF ByTelemetryId(id) = 0 THEN TRUE
       ELSE candidates[ByTelemetryId(id)].nodeRefs >= 0
    /\ reportOffline("telemetry", id, 1)

\* the stash the configuration gives for a name
ConfiguredStash == [name \in Names |-> IF name = "n1" THEN "s1" ELSE "s2"]

\* the configuration is ingested and the old fields are cleared by one
\* caller, the telemetry feed, of one node, is served by another
NextCandidates ==
    \/ \E name \in Names : addCandidate("config", name, ConfiguredStash[name])
    \/ clearCandidates("config")
    \/ deleteOldCandidateFields("config")
    \/ \E name \in Names : deleteOldFieldFrom("config", name)
    \/ \E name \in Names : clearNodeRefsFrom("config", name)
    \/ NodeAdded(1, "n1")
    \/ NodeRemoved(1)
    \/ \E k \in {"config", "telemetry"} : AwaitedCommand(k)

SpecCandidates == Init /\ [][NextCandidates]_vars

\* the names of the candidate records
NamesOf(coll) == {coll[i].name : i \in 1..Len(coll)}

\* C23: no step of a store operation takes a name out of the candidate
\* collection: a name that has a record has one in every later state.
C23_NamesStay ==
    [][NamesOf(candidates) \subseteq NamesOf(candidates')]_vars

\* clearCandidates has returned and the field-unset operation has run: the
\* record has neither stash nor telemetry id left, and is still there
C23_Witness ==
    /\ ops["config"] = NoOp
    /\ \E i \in 1..Len(candidates) :
          /\ candidates[i].name = "n1"
          /\ candidates[i].stash = "null"
          /\ candidates[i].discoveredAt # 0
          /\ candidates[i].telemetryId = 0

\* the configuration names a candidate while a node of that name joins and
\* leaves the telemetry feed
NextIngest ==
    \/ \E name \in Names : addCandidate("config", name, ConfiguredStash[name])
    \/ \E name \in Names : NodeAdded(1, name)
    \/ NodeRemoved(1)
    \/ \E k \in {"config", "telemetry"} : AwaitedCommand(k)

SpecIngest == Init /\ [][NextIngest]_vars

\* C24: no two candidate records have the same name.
C24_NamesUnique ==
    \A i, j \in 1..Len(candidates) :
        candidates[i].name = candidates[j].name => i = j

\* two nodes join and leave the telemetry feed, under either name; the node
\* counts are cleared while the feed is empty
NextTelemetry ==
    \/ \E id \in TelemetryIds, name \in Names : NodeAdded(id, name)
    \/ \E id \in TelemetryIds : NodeRemoved(id)
    \/ AwaitedCommand("telemetry")
    \/ \E name \in Names : sessions = {} /\ clearNodeRefsFrom("telemetry", name)

SpecTelemetry == Init /\ [][NextTelemetry]_vars

\* C25: once the report at hand has returned, every candidate's nodeRefs is
\* the number of nodes in the telemetry feed that carry its name.
C25_NodeRefsCountsSessions ==
    ops["telemetry"] = NoOp =>
        \A i \in 1..Len(candidates) :
            candidates[i].nodeRefs =
                Cardinality({n \in sessions : n.name = candidates[i].name})

\* the store executes the update of a reportOffline call on record i
ReportOfflineApplied(i) ==
    /\ "todo" \in DOMAIN ops["telemetry"]
    /\ ops["telemetry"].op = "reportOffline"
    /\ ops'["telemetry"] = NoOp
    /\ i = ByTelemetryId(Head(ops["telemetry"].todo).filter.key)

\* C40: reportOffline on a candidate whose nodeRefs is greater than 1 takes
\* one from nodeRefs and changes nothing else of the record: offlineSince,
\* onlineSince and the ONLINE entry of its invalidity list are as before.
C40_OnlyDecrementsAboveOne ==
    [][\A i \in 1..Len(candidates) :
          (ReportOfflineApplied(i) /\ candidates[i].nodeRefs > 1) =>
              candidates' = [candidates EXCEPT ![i].nodeRefs = @ - 1]]_vars

----------------------------------------------------------------------------
(* The nominator collection: addNominator and removeStaleNominators *)

\* the addresses nominators are added with
NominatorAddresses == {"a1", "a2", "a3"}

\* addNominator: findOne({address}), then a saved document for an address
\* that was not found, else an update of createdAt, stash, proxy and bonded,
\* which are not fields of the model's documents
addNominator(k, address) ==
    /\ ops[k] = NoOp
    /\ nominators' =
          IF \E i \in 1..Len(nominators) : nominators[i].address = address
          THEN nominators
          ELSE Append(nominators, NewNominator(address))
    /\ UNCHANGED <<candidates, ops, inflight, notStoreVars>>

\* a test that takes the listed addresses for the stale ones
IsListed(controllers, address) == address \in controllers

\* controllers.indexOf(address) === -1
IsStale(controllers, address) == address \notin controllers

\* nominatorModel.deleteOne({address}): the first document that matches goes
DeleteNominator(rows, address) ==
    LET hits == {i \in 1..Len(rows) : rows[i].address = address}
    IN  IF hits = {} THEN rows
        ELSE [i \in 1..(Len(rows) - 1) |->
                 IF i < First(hits) THEN rows[i] ELSE rows[i + 1]]

\* removeStaleNominators up to its first await: allNominators() is read and
\* mapped to its addresses.  `before` keeps what was stored at the call.
removeStaleNominators(k, controllers) ==
    /\ ops[k] = NoOp
    /\ ops' = [ops EXCEPT ![k] =
          [op |-> "removeStaleNominators", controllers |-> controllers,
           addresses |-> [i \in 1..Len(nominators) |-> nominators[i].address],
           before |-> nominators]]
    /\ UNCHANGED <<candidates, nominators, inflight, notStoreVars>>

\* the loop of removeStaleNominators: the store executes the deleteOne
\* awaited for the next address that is not in controllers, or no such
\* address is left and the operation returns true
removeStaleNominatorsNext(k) ==
    /\ ops[k].op = "removeStaleNominators"
    /\ LET stale == SelectSeq(ops[k].addresses,
                              LAMBDA a : IsStale(ops[k].controllers, a))
       IN  IF stale = <<>>
           THEN /\ ops' = [ops EXCEPT ![k] = NoOp]
                /\ UNCHANGED nominators
           ELSE /\ nominators' = DeleteNominator(nominators, Head(stale))
                /\ ops' = [ops EXCEPT ![k].addresses = Tail(stale)]
    /\ UNCHANGED <<candidates, inflight, notStoreVars>>

\* one caller adds nominators and removes the stale ones, an operation at a
\* time
NextNominators ==
    \/ \E a \in NominatorAddresses : addNominator("nominator", a)
    \/ \E controllers \in SUBSET NominatorAddresses :
          removeStaleNominators("nominator", controllers)
    \/ removeStaleNominatorsNext("nominator")

SpecNominators == Init /\ [][NextNominators]_vars

\* C26: when removeStaleNominators(controllers) returns, the nominators
\* stored are those stored when it was called whose address is in
\* controllers, and no others.
C26_ExactlyControllersKept ==
    [][(ops["nominator"].op = "removeStaleNominators" /\ ops'["nominator"] = NoOp)
          => nominators' =
                SelectSeq(ops["nominator"].before,
                          LAMBDA n : n.address \in ops["nominator"].controllers)]_vars

\* the store held A, B and C, the call was made with [A, C], and it is about
\* to return with B removed and A and C kept
C26_Witness ==
    /\ ops["nominator"].op = "removeStaleNominators"
    /\ {ops["nominator"].before[i].address :
           i \in 1..Len(ops["nominator"].before)} = {"a1", "a2", "a3"}
    /\ ops["nominator"].controllers = {"a1", "a3"}
    /\ {nominators[i].address : i \in 1..Len(nominators)} = {"a1", "a3"}

----------------------------------------------------------------------------
(* The RewardClaim cron: startRewardClaimJob *)

\* KUSAMA_REWARD_THRESHOLD and POLKADOT_REWARD_THRESHOLD, in eras
KUSAMA_REWARD_THRESHOLD == 2
POLKADOT_REWARD_THRESHOLD == 1

\* the free balances the claimer account is seen with: just below one half
\* of a unit, one half, and a unit
Balances == {10^decimals \div 2 - 1, 10^decimals \div 2, 10^decimals}

\* the lists setUnclaimedEras is called with
UnclaimedEras == {<<>>, <<0>>, <<1, 2>>}

\* free < 0.5, where free = toDecimals(Number(balance.free), metadata.decimals)
\* is the balance in units
LowFreeBalance(free) == 2 * Ratio(free, 10^decimals).num < Ratio(free, 10^decimals).den

\* startRewardClaimJob: the free balance is read once; when it is low the bot
\* is told and the function returns before the cron is created; otherwise
\* the cron is created and started
startRewardClaimJob(networkPrefix) ==
    /\ rewardJob.pc = "off"
    /\ rewardJob' = IF LowFreeBalance(balance) THEN [pc |-> "skipped"]
                    ELSE [pc |-> "started", networkPrefix |-> networkPrefix]
    /\ UNCHANGED <<balance, claimed, jobVars, storeVars, sessions, execVars,
                   eraVars, lastVars, prefVars, nominationVars, cancelVars>>

\* the cron callback up to its second await: the active era index is read
\* and the claim threshold computed
RewardClaimTick ==
    /\ rewardJob.pc = "started"
    /\ LET rewardClaimThreshold ==
               IF rewardJob.networkPrefix = 2 THEN KUSAMA_REWARD_THRESHOLD
               ELSE POLKADOT_REWARD_THRESHOLD
       IN  rewardJob' = [pc |-> "allCandidates",
                         networkPrefix |-> rewardJob.networkPrefix,
                         currentEra |-> activeEra,
                         claimThreshold |-> activeEra - rewardClaimThreshold,
                         low |-> LowFreeBalance(balance)]
    /\ UNCHANGED <<balance, claimed, jobVars, storeVars, sessions, execVars,
                   eraVars, lastVars, prefVars, nominationVars, cancelVars>>

\* a test that takes the era at the threshold too
AtOrBeforeThreshold(era, claimThreshold) == era <= claimThreshold

\* era < claimThreshold
BeforeThreshold(era, claimThreshold) == era < claimThreshold

\* the eras of one candidate that the loop pushes, as {era, stash}
ErasOf(candidate, claimThreshold) ==
    IF "unclaimedEras" \in DOMAIN candidate
    THEN LET due == SelectSeq(candidate.unclaimedEras,
                              LAMBDA era : BeforeThreshold(era, claimThreshold))
         IN  [n \in 1..Len(due) |-> [era |-> due[n], stash |-> candidate.stash]]
    ELSE <<>>

RECURSIVE ErasToClaim(_, _)
\* erasToClaim after the loop over the candidates read
ErasToClaim(read, claimThreshold) ==
    IF read = <<>> THEN <<>>
    ELSE ErasOf(Head(read), claimThreshold) \o ErasToClaim(Tail(read), claimThreshold)

\* the rest of the cron callback: db.allCandidates() is read, erasToClaim is
\* filled, and claimer.claim is called with it when it is not empty
RewardClaim ==
    /\ rewardJob.pc = "allCandidates"
    /\ LET erasToClaim == ErasToClaim(allCandidates, rewardJob.claimThreshold)
       IN  claimed' = [batches |-> IF Len(erasToClaim) > 0 THEN <<erasToClaim>>
                                   ELSE <<>>,
                       currentEra |-> rewardJob.currentEra,
                       claimThreshold |-> rewardJob.claimThreshold,
                       low |-> rewardJob.low, ticks |-> TRUE]
    /\ rewardJob' = [pc |-> "started", networkPrefix |-> rewardJob.networkPrefix]
    /\ UNCHANGED <<balance, jobVars, storeVars, sessions, execVars, eraVars, lastVars,
                   prefVars, nominationVars, cancelVars>>

\* the claimer account is paid into or pays fees
BalanceChange ==
    /\ \E free \in Balances : free # balance /\ balance' = free
    /\ UNCHANGED <<rewardJob, claimed, jobVars, storeVars, sessions, execVars,
                   eraVars, lastVars, prefVars, nominationVars, cancelVars>>

\* setUnclaimedEras: one awaited findOneAndUpdate by stash
setUnclaimedEras(k, stash, unclaimedEras) ==
    SetAttribute(k, "unclaimedEras", stash, unclaimedEras)

\* a store of two candidates and a node without a stash, met at era 3
InitClaims ==
    /\ InitJobs /\ InitExec /\ InitLater
    /\ candidates = <<NewCandidate("n1", "s1"), NewNode(1, "n3", "v1", 1),
                      NewCandidate("n2", "s2")>>
    /\ nominators = <<NewNominator("a1")>>
    /\ ops = [k \in Callers |-> NoOp]
    /\ inflight = {}
    /\ sessions = {}
    /\ eraPoints = <<>>
    /\ totalEraPoints = <<>>
    /\ eraStats = <<>>
    /\ activeEra = 3
    /\ chainPoints = [e \in 0..MaxEra |-> FreshPoints]
    /\ eraRun = IdleRun
    /\ eraWrites = {}

NextReward ==
    \/ \E networkPrefix \in {0, 2} : startRewardClaimJob(networkPrefix)
    \/ RewardClaimTick
    \/ RewardClaim
    \/ BalanceChange
    \/ \E stash \in Stashes, eras \in UnclaimedEras :
          setUnclaimedEras("validity", stash, eras)

SpecReward == InitClaims /\ [][NextReward]_vars

\* C27: a RewardClaim tick that began with the claimer's free balance below
\* the minimum has handed no batch to claimer.claim.
C27_NoClaimOnLowBalance ==
    claimed.low => claimed.batches = <<>>

\* the pairs {era, stash} of the eras in some candidate's unclaimedEras that
\* are before the threshold
DuePairs(claimThreshold) ==
    UNION {{[era |-> d.unclaimedEras[m], stash |-> d.stash] :
               m \in {n \in 1..Len(d.unclaimedEras) :
                         d.unclaimedEras[n] < claimThreshold}} :
           d \in {candidates[i] : i \in {k \in 1..Len(candidates) :
                                            "unclaimedEras" \in DOMAIN candidates[k]}}}

\* C28: a RewardClaim tick hands claimer.claim one batch that holds exactly,
\* and once each, the pairs {era, stash} with era in some candidate's
\* unclaimedEras and era < currentEra - rewardClaimThreshold, and hands it
\* nothing when there is no such pair.
C28_BatchIsDuePairs ==
    [][(rewardJob.pc = "allCandidates" /\ rewardJob'.pc = "started") =>
          LET due == DuePairs(claimed'.currentEra
                         - (IF rewardJob.networkPrefix = 2 THEN KUSAMA_REWARD_THRESHOLD
                            ELSE POLKADOT_REWARD_THRESHOLD))
          IN  IF due = {} THEN claimed'.batches = <<>>
              ELSE /\ Len(claimed'.batches) = 1
                   /\ {claimed'.batches[1][n] : n \in 1..Len(claimed'.batches[1])} = due
                   /\ Len(claimed'.batches[1]) = Cardinality(due)]_vars

\* a tick has handed over a batch with eras of both candidates, while one
\* candidate has an unclaimed era that is not before the threshold
C28_Witness ==
    /\ Len(claimed.batches) = 1
    /\ {claimed.batches[1][n].stash : n \in 1..Len(claimed.batches[1])} = {"s1", "s2"}
    /\ \E i \in 1..Len(candidates) :
          /\ "unclaimedEras" \in DOMAIN candidates[i]
          /\ \E n \in 1..Len(candidates[i].unclaimedEras) :
                candidates[i].unclaimedEras[n] >= claimed.claimThreshold

----------------------------------------------------------------------------
(* The Cancel cron: startCancelCron *)

\* the chain's best block when the Cancel cron is observed
LateBlock == 2 * TIME_DELAY_BLOCKS + 100

\* the heights of the announcements the chain may hold then: around the
\* block that lies twice the default delay back, and around the block that
\* lies twice the configured delay back
AnnouncementHeights ==
    {99, 100, LateBlock - 2 * timeDelayBlocks - 1, LateBlock - 2 * timeDelayBlocks,
     LateBlock - 1}

\* a threshold that is the latest block itself
CancelThresholdAtLatest(latestBlock) == [nan |-> FALSE, value |-> latestBlock]

\* latestBlock - 2 * config.proxy.timeDelayBlocks: a number, or NaN when
\* the configuration has no timeDelayBlocks
CancelThreshold(latestBlock) ==
    IF "timeDelayBlocks" \in DOMAIN proxy
    THEN [nan |-> FALSE, value |-> latestBlock - 2 * proxy.timeDelayBlocks]
    ELSE [nan |-> TRUE]

\* announcement.height < threshold: false when threshold is NaN
OlderThan(height, threshold) ==
    IF threshold.nan THEN FALSE ELSE height < threshold.value

\* the cron fires: the latest block is read and the threshold computed
CancelTick ==
    /\ cancelRun.pc = "idle"
    /\ cancelRun' = [pc |-> "nominators", latestBlock |-> block,
                     threshold |-> CancelThreshold(block),
                     noms |-> nominatorGroups, read |-> {}, attempted |-> {}]
    /\ UNCHANGED <<proxy, announcements, jobVars, storeVars, sessions, execVars,
                   eraVars, lastVars, prefVars, nominationVars, rewardVars>>

\* the next nominator of the groups (all are proxy nominators): its
\* announcements are read from the chain; after the last one the callback
\* returns.  `read` and `attempted` keep what the callback has read and what
\* it has called cancelTx for.
getProxyAnnouncements ==
    /\ cancelRun.pc = "nominators"
    /\ IF cancelRun.noms = {}
       THEN cancelRun' = [IdleCancel EXCEPT !.latestBlock = cancelRun.latestBlock,
                                           !.read = cancelRun.read,
                                           !.attempted = cancelRun.attempted]
       ELSE LET nom == CHOOSE n \in cancelRun.noms : TRUE
            IN  cancelRun' =
                   [cancelRun EXCEPT
                       !.pc = "announcements", !.noms = @ \ {nom},
                       !.read = @ \cup {<<nom, h>> : h \in announcements[nom]}]
                   @@ [nom |-> nom, pending |-> announcements[nom]]
    /\ UNCHANGED <<proxy, announcements, jobVars, storeVars, sessions, execVars,
                   eraVars, lastVars, prefVars, nominationVars, rewardVars>>

\* the loop over the announcements read: for the next one that is older than
\* the threshold, nom.cancelTx is awaited, and the announcement is off the
\* chain when it did cancel; when none is left, the next nominator
cancelTx(didCancel) ==
    /\ cancelRun.pc = "announcements"
    /\ LET due == {h \in cancelRun.pending : OlderThan(h, cancelRun.threshold)}
           height == CHOOSE h \in due : \A g \in due : h <= g
           nom == cancelRun.nom
       IN  IF due = {}
           THEN /\ cancelRun' = [cancelRun EXCEPT !.pc = "nominators",
                                                  !.pending = {}]
                /\ UNCHANGED announcements
           ELSE /\ cancelRun' = [cancelRun EXCEPT
                                    !.pending = @ \ {height},
                                    !.attempted = @ \cup {<<nom, height>>}]
                /\ announcements' = IF didCancel
                                    THEN [announcements EXCEPT ![nom] = @ \ {height}]
                                    ELSE announcements
    /\ UNCHANGED <<proxy, jobVars, storeVars, sessions, execVars, eraVars, lastVars,
                   prefVars, nominationVars, rewardVars>>

\* a chain at a late block that holds some announcements of the nominator,
\* and a configuration with or without proxy.timeDelayBlocks
InitCancels ==
    /\ InitJobs /\ InitStore /\ InitEra /\ InitPrefs /\ InitNominations /\ InitReward
    /\ InitLast
    /\ delayedTxs = <<>>
    /\ announced = 0
    /\ block = LateBlock
    /\ execs = EmptyBag
    /\ \/ proxy = [timeDelayBlocks |-> timeDelayBlocks]
       \/ proxy = <<>>
    /\ announcements \in [nominatorGroups -> SUBSET AnnouncementHeights]
    /\ cancelRun = IdleCancel

NextCancel ==
    \/ CancelTick
    \/ getProxyAnnouncements
    \/ \E didCancel \in BOOLEAN : cancelTx(didCancel)

SpecCancel == InitCancels /\ [][NextCancel]_vars

\* the delay the Cancel job is to work with: the configured one, or the
\* default
DelayOrDefault ==
    IF "timeDelayBlocks" \in DOMAIN proxy THEN proxy.timeDelayBlocks
    ELSE TIME_DELAY_BLOCKS

\* C29: when a Cancel tick returns, it has called cancelTx for exactly the
\* announcements it has read that are older than the latest block less twice
\* the delay, the delay being the configured proxy.timeDelayBlocks or 10850.
C29_CancelsOlderThanTwiceDelay ==
    [][(cancelRun.pc = "nominators" /\ cancelRun'.pc = "idle") =>
          cancelRun'.attempted =
             {a \in cancelRun'.read :
                 a[2] < cancelRun'.latestBlock - 2 * DelayOrDefault}]_vars

\* the delays a configuration may give: none, a short one, and the one of
\* the Execution callbacks above
ConfiguredDelays == {0, 1, timeDelayBlocks}

\* the heights of the announcements the chain may hold at the highest block:
\* around the block twice the delay back, less than the delay back, and
\* just made
RecentHeights ==
    {MaxBlock - 2 * timeDelayBlocks - 1, MaxBlock - 2 * timeDelayBlocks,
     MaxBlock - timeDelayBlocks + 1, MaxBlock - 3, MaxBlock - 1}

\* a chain at its highest block that holds some announcements of the
\* nominator, and a configuration with any of the delays or with none
InitDelays ==
    /\ InitJobs /\ InitStore /\ InitEra /\ InitPrefs /\ InitNominations /\ InitReward
    /\ InitLast
    /\ delayedTxs = <<>>
    /\ announced = 0
    /\ block = MaxBlock
    /\ execs = EmptyBag
    /\ \/ \E d \in ConfiguredDelays : proxy = [timeDelayBlocks |-> d]
       \/ proxy = <<>>
    /\ announcements \in [nominatorGroups -> SUBSET RecentHeights]
    /\ cancelRun = IdleCancel

SpecDelays == InitDelays /\ [][NextCancel]_vars

\* the Cancel callback and the Execution callback work with the same delay:
\* the configuration gives one, and it is the one startExecutionJob takes
SameDelay == "timeDelayBlocks" \in DOMAIN proxy /\ proxy.timeDelayBlocks = ExecutionDelay

\* C38: when the two jobs work with the same delay, every announcement the
\* Cancel callback has called cancelTx for is at a height whose DelayedTx row
\* the Execution callback would execute at the block the Cancel callback has
\* read: height + timeDelayBlocks <= latestBlock.
C38_CancelledWasExecutable ==
    SameDelay =>
        \A a \in cancelRun.attempted : shouldExecute(a[2], cancelRun.latestBlock)

\* with the delay 10 configured the callback has called cancelTx for the
\* announcement made 21 blocks back and has passed over the one made 20
\* blocks back
C38_Witness ==
    /\ SameDelay
    /\ proxy.timeDelayBlocks = timeDelayBlocks
    /\ cancelRun.pc = "idle"
    /\ \E nom \in nominatorGroups :
           /\ <<nom, cancelRun.latestBlock - 2 * timeDelayBlocks - 1>> \in cancelRun.attempted
           /\ <<nom, cancelRun.latestBlock - 2 * timeDelayBlocks>>
                  \in cancelRun.read \ cancelRun.attempted

----------------------------------------------------------------------------
(* The median of the reward points of an era *)

\* the addresses of the validators of an era, in the order of the chain's list
MedianAddresses == <<"v1", "v2", "v3", "v4">>

\* the reward points the validators of an era may have, in the order of the
\* chain's list: none, one, and lists of even and of odd length, in order or
\* not, with a whole mean of the middle two or not
PointLists ==
    {<<>>, <<10000>>, <<2, 1>>, <<9, 2, 4>>, <<7, 1, 5, 3>>,
     <<70000, 10000, 50000, 30000>>}

AsValidators(points) ==
    [n \in 1..Len(points) |-> [address |-> MedianAddresses[n], eraPoints |-> points[n]]]

\* a chain that stands still at an active era, whose eras have any of the
\* lists, and an empty store
InitMedian ==
    /\ InitJobs /\ InitStore /\ InitExec /\ InitLater
    /\ eraPoints = <<>>
    /\ totalEraPoints = <<>>
    /\ eraStats = <<>>
    /\ activeEra \in 0..MaxEra
    /\ \E lists \in [0..MaxEra -> PointLists] :
           chainPoints = [e \in 0..MaxEra |-> AsValidators(lists[e])]
    /\ eraRun = IdleRun
    /\ eraWrites = {}

NextMedian ==
    \/ EraPointsTick
    \/ ReadStoredEra
    \/ FetchEra
    \/ setEraPoints
    \/ setTotalEraPoints
    \/ \E w \in eraWrites : ApplyEraWrite(w)

SpecMedian == InitMedian /\ [][NextMedian]_vars

\* the EraPoints callback on a chain that stands still and has eras without
\* validators, with calls that return or reject
NextEraLive ==
    \/ EraPointsTick
    \/ ReadStoredEra
    \/ FetchEra
    \/ setEraPoints
    \/ setTotalEraPoints
    \/ EraRunRejected
    \/ \E w \in eraWrites : ApplyEraWrite(w)

\* every awaited chain and store call of a run returns or rejects, the store
\* applies the updates issued, and the cron keeps firing
SpecEraLive ==
    /\ InitMedian
    /\ [][NextEraLive]_vars
    /\ WF_vars(ReadStoredEra \/ FetchEra \/ setEraPoints \/ setTotalEraPoints
                  \/ EraRunRejected)
    /\ WF_vars(\E w \in eraWrites : ApplyEraWrite(w))
    /\ WF_vars(EraPointsTick)

\* C39: a body of the EraPoints callback that has returned or thrown has left
\* the flag false; a body that runs ends, so the flag is false again; and the
\* ticks that come later run the body again and again.
C39_EraPointsRunsAgain ==
    /\ [](eraRun.pc \in {"idle", "resolved", "rejected"} <=> ~running["EraPoints"])
    /\ running["EraPoints"] ~> ~running["EraPoints"]
    /\ []<>running["EraPoints"]

\* a run has thrown at an era whose validator list is empty (or at a call
\* that rejected), and the flag is false
C39_Witness ==
    /\ eraRun.pc = "rejected"
    /\ ~running["EraPoints"]
    /\ \E e \in eraRun.fetches : chainPoints[e] = <<>>

\* the points of a list of validators
PointsOf(validators) == [n \in 1..Len(validators) |-> validators[n].eraPoints]

\* the k-th smallest of the points: fewer than k of them are below it, and at
\* least k of them are not above it
Kth(points, k) ==
    CHOOSE x \in {points[n] : n \in 1..Len(points)} :
        /\ Cardinality({n \in 1..Len(points) : points[n] < x}) < k
        /\ Cardinality({n \in 1..Len(points) : points[n] <= x}) >= k

\* m is the median of the points: the middle one in ascending order when
\* their number is odd, the mean of the middle two when it is even, and
\* undefined when there is none
IsMedianOf(m, points) ==
    LET length == Len(points)
    IN  IF length = 0 THEN m = undefined
        ELSE /\ "num" \in DOMAIN m
             /\ m.den > 0
             /\ IF length % 2 = 1
                THEN m.num = Kth(points, (length + 1) \div 2) * m.den
                ELSE 2 * m.num =
                        (Kth(points, length \div 2) + Kth(points, length \div 2 + 1))
                            * m.den

\* C30: the median setTotalEraPoints computes of the points of an era, and
\* the one every stored TotalEraPoints row has, is the middle element of the
\* points in ascending order when their number is odd and the mean of the two
\* middle elements when it is even; of an empty list it is undefined, and no
\* row is stored.
C30_MedianOfSortedPoints ==
    /\ eraRun.pc = "findOne" =>
           IsMedianOf(getMedian(eraRun.validators), PointsOf(eraRun.validators))
    /\ \A k \in 1..Len(totalEraPoints) :
           /\ totalEraPoints[k].validatorsEraPoints # <<>>
           /\ IsMedianOf(totalEraPoints[k].median,
                         PointsOf(totalEraPoints[k].validatorsEraPoints))

\* the rows of two eras are stored, one of the points 7, 1, 5, 3 and one of
\* the points 9, 2, 4, both with the median 4
C30_Witness ==
    \E j, k \in 1..Len(totalEraPoints) :
        /\ PointsOf(totalEraPoints[j].validatorsEraPoints) = <<7, 1, 5, 3>>
        /\ totalEraPoints[j].median = Ratio(4, 1)
        /\ PointsOf(totalEraPoints[k].validatorsEraPoints) = <<9, 2, 4>>
        /\ totalEraPoints[k].median = Ratio(4, 1)

----------------------------------------------------------------------------
(* The ValidatorScore collection of Db *)

\* the parameters of setValidatorScore after address
ScoreParameters ==
    {"updated", "total", "aggregate", "inclusion", "spanInclusion", "discovered",
     "nominated", "rank", "extNominations", "unclaimed", "bonded", "faults",
     "offline", "randomness"}

\* the scores a caller passes: every parameter has a value of its own, and
\* the values of two calls differ
ScoresPassed ==
    {[updated |-> 1 + n, total |-> 2 + n, aggregate |-> 3 + n, inclusion |-> 4 + n,
      spanInclusion |-> 5 + n, discovered |-> 6 + n, nominated |-> 7 + n,
      rank |-> 8 + n, extNominations |-> 9 + n, unclaimed |-> 10 + n,
      bonded |-> 11 + n, faults |-> 12 + n, offline |-> 13 + n,
      randomness |-> 14 + n] : n \in {0, 100}}

\* the fields of the object literals of setValidatorScore, the one of the new
\* document and the one of the update: both are without extNominations
StoredFields(score) ==
    [f \in ScoreParameters \ {"extNominations"} |-> score[f]]

\* validatorScoreModel.findOne({address}): the index of the row, else 0
FindScore(address) ==
    First({i \in 1..Len(validatorScores) : validatorScores[i].address = address})

\* db.setValidatorScore(address, updated, total, ...): the call is made and
\* awaits its findOne
setValidatorScoreCalled(address, score) ==
    /\ scoreCall.pc \in {"idle", "returned"}
    /\ scoreCall' = [pc |-> "findOne", address |-> address, score |-> score]
    /\ UNCHANGED <<validatorScores, scoreWrites>>
    /\ UNCHANGED <<jobVars, storeVars, execVars, eraVars, sessions, prefVars,
                   nominationVars, rewardVars, cancelVars, loopRuns,
                   currentValidators>>

\* findOne has returned: a new document is saved and the save awaited when
\* there is no row, else an update is issued and not awaited; the call returns
setValidatorScore ==
    /\ scoreCall.pc = "findOne"
    /\ IF FindScore(scoreCall.address) = 0
       THEN /\ validatorScores' = Append(validatorScores,
                   [address |-> scoreCall.address] @@ StoredFields(scoreCall.score))
            /\ UNCHANGED scoreWrites
       ELSE /\ scoreWrites' = scoreWrites \cup
                   {[address |-> scoreCall.address,
                     set |-> StoredFields(scoreCall.score)]}
            /\ UNCHANGED validatorScores
    /\ scoreCall' = [scoreCall EXCEPT !.pc = "returned"]
    /\ UNCHANGED <<jobVars, storeVars, execVars, eraVars, sessions, prefVars,
                   nominationVars, rewardVars, cancelVars, loopRuns,
                   currentValidators>>

\* the store applies an update that was not awaited
ApplyScoreWrite(w) ==
    /\ validatorScores' = UpdateFirst(validatorScores,
           {i \in 1..Len(validatorScores) : validatorScores[i].address = w.address},
           w.set)
    /\ scoreWrites' = scoreWrites \ {w}
    /\ UNCHANGED scoreCall
    /\ UNCHANGED <<jobVars, storeVars, execVars, eraVars, sessions, prefVars,
                   nominationVars, rewardVars, cancelVars, loopRuns,
                   currentValidators>>

NextScores ==
    \/ \E address \in Stashes, score \in ScoresPassed :
           setValidatorScoreCalled(address, score)
    \/ setValidatorScore
    \/ \E w \in scoreWrites : ApplyScoreWrite(w)

SpecScores == Init /\ [][NextScores]_vars

\* C33: once a setValidatorScore call has returned and the store has applied
\* the updates issued, the row of the address has every parameter that was
\* passed in, extNominations among them, with the value passed, whether the
\* call has created the row or updated it.
C33_EverySubscoreStored ==
    (scoreCall.pc = "returned" /\ scoreWrites = {}) =>
        /\ FindScore(scoreCall.address) # 0
        /\ \A f \in ScoreParameters :
               /\ f \in DOMAIN validatorScores[FindScore(scoreCall.address)]
               /\ validatorScores[FindScore(scoreCall.address)][f] = scoreCall.score[f]

----------------------------------------------------------------------------
(* The Inclusion cron callback and inclusionJob *)

\* what the runs of the candidate loops leave alone, apart from the flags and
\* the candidate collection
notLoopVars == <<calls, failures, crashed, nominators, ops, inflight, sessions,
                 execVars, eraVars, prefVars, nominationVars, rewardVars,
                 cancelVars, scoreVars, currentValidators>>

\* the cron fires while no run is in progress: running = true, the callback
\* reads db.allCandidates() and calls the job with what it has read
LoopTick(j) ==
    /\ ~running[j]
    /\ loopRuns[j].pc = "idle"
    /\ allCandidates # <<>>
    /\ running' = [running EXCEPT ![j] = TRUE]
    /\ loopRuns' = [loopRuns EXCEPT ![j] =
          [IdleLoop EXCEPT
              !.pc = "prelude",
              !.stashes = [i \in 1..Len(allCandidates) |-> allCandidates[i].stash]]]
    /\ UNCHANGED <<candidates, notLoopVars>>

\* the loop of run j moves to the next candidate, or the job returns and
\* running = false
NextCandidate(j, first) ==
    IF loopRuns[j].n = Len(loopRuns[j].stashes)
    THEN /\ loopRuns' = [loopRuns EXCEPT ![j] = IdleLoop]
         /\ running' = [running EXCEPT ![j] = FALSE]
    ELSE /\ loopRuns' = [loopRuns EXCEPT ![j].n = @ + 1, ![j].pc = first]
         /\ UNCHANGED running

\* [activeEra, err] = await chaindata.getActiveEraIndex()
getActiveEraIndex ==
    /\ loopRuns["Inclusion"].pc = "prelude"
    /\ loopRuns' = [loopRuns EXCEPT !["Inclusion"].read = activeEra,
                                    !["Inclusion"].n = 1,
                                    !["Inclusion"].pc = "getHistoryDepthEraPoints"]
    /\ UNCHANGED <<running, candidates, notLoopVars>>

\* eraPointsModel.find({address, era: {$gte: since}}), then
\* .filter((era) => era.eraPoints > 0).length
ErasWithPoints(address, since) ==
    Cardinality({k \in 1..Len(eraPoints) :
                    /\ eraPoints[k].address = address
                    /\ eraPoints[k].era >= since
                    /\ eraPoints[k].eraPoints > 0})

\* erasActive = await db.getHistoryDepthEraPoints(candidate.stash, activeEra),
\* resp. spanErasActive = await db.getSpanEraPoints(candidate.stash, activeEra)
EraPointsQuery(pc, back, setter) ==
    /\ loopRuns["Inclusion"].pc = pc
    /\ LET r == loopRuns["Inclusion"]
       IN  loopRuns' = [loopRuns EXCEPT
               !["Inclusion"].found = ErasWithPoints(r.stashes[r.n], r.read - back),
               !["Inclusion"].pc = setter]
    /\ UNCHANGED <<running, candidates, notLoopVars>>

getHistoryDepthEraPoints ==
    EraPointsQuery("getHistoryDepthEraPoints", 83, "setInclusion")

getSpanEraPoints == EraPointsQuery("getSpanEraPoints", 27, "setSpanInclusion")

\* await db.setInclusion(candidate.stash, Number(filteredEras.length / 84))
setInclusion ==
    /\ loopRuns["Inclusion"].pc = "setInclusion"
    /\ LET r == loopRuns["Inclusion"]
           stash == r.stashes[r.n]
       IN  candidates' = Applied(Update([by |-> "stash", key |-> stash],
                                        [inclusion |-> Ratio(r.found, 84)], 0),
                                 ByStash(stash))
    /\ loopRuns' = [loopRuns EXCEPT !["Inclusion"].pc = "getSpanEraPoints"]
    /\ UNCHANGED <<running, notLoopVars>>

\* await db.setSpanInclusion(candidate.stash,
\* Number(filteredSpanEras.length / 28)), the last call of the loop body
setSpanInclusion ==
    /\ loopRuns["Inclusion"].pc = "setSpanInclusion"
    /\ LET r == loopRuns["Inclusion"]
           stash == r.stashes[r.n]
       IN  candidates' = Applied(Update([by |-> "stash", key |-> stash],
                                        [spanInclusion |-> Ratio(r.found, 28)], 0),
                                 ByStash(stash))
    /\ NextCandidate("Inclusion", "getHistoryDepthEraPoints")
    /\ UNCHANGED notLoopVars

\* the eras a run of eraPointsJob that starts at active era 84 on an empty
\* store goes through, in its order
ErasOfRunAt84 == [k \in 1..84 |-> IF k = 84 THEN 84 ELSE 84 - k]

\* the validators of every era: a candidate and another validator, both with
\* points
InclusionPoints ==
    <<[address |-> "s1", eraPoints |-> PointLevels[2]],
      [address |-> "v2", eraPoints |-> PointLevels[2]]>>

\* a chain at active era 84 that has 84 eras and more to come, the store as
\* the eraPointsJob run at that era leaves it when it is the first, and a
\* candidate that is a validator of every era
InitInclusion ==
    /\ InitJobs /\ InitExec /\ InitLater
    /\ candidates = <<NewCandidate("n1", "s1")>>
    /\ nominators = <<>>
    /\ ops = [k \in Callers |-> NoOp]
    /\ inflight = {}
    /\ sessions = {}
    /\ activeEra = 84
    /\ chainPoints = [e \in 0..MaxActiveEra |-> InclusionPoints]
    /\ eraPoints = [k \in 1..(2 * 84) |->
                       [address |-> InclusionPoints[2 - (k % 2)].address,
                        era |-> ErasOfRunAt84[(k + 1) \div 2],
                        eraPoints |-> InclusionPoints[2 - (k % 2)].eraPoints]]
    /\ totalEraPoints = [k \in 1..84 |->
                            [era |-> ErasOfRunAt84[k]]
                                @@ TotalEraPointsFields(SumPoints(InclusionPoints),
                                                        InclusionPoints)]
    /\ eraStats = <<>>
    /\ eraRun = IdleRun
    /\ eraWrites = {}

NextInclusion ==
    \/ NewEra
    \/ EraPointsTick
    \/ ReadStoredEra
    \/ FetchEra
    \/ setEraPoints
    \/ setTotalEraPoints
    \/ \E w \in eraWrites : ApplyEraWrite(w)
    \/ LoopTick("Inclusion")
    \/ getActiveEraIndex
    \/ getHistoryDepthEraPoints
    \/ setInclusion
    \/ getSpanEraPoints
    \/ setSpanInclusion

SpecInclusion == InitInclusion /\ [][NextInclusion]_vars

\* C37: the inclusion and the spanInclusion of every candidate record are
\* between 0 and 1: inclusionJob has counted at most 84, respectively 28,
\* eras with points, whatever eraPointsJob has stored and however the active
\* era has moved since the job has read it.
C37_InclusionWithinUnit ==
    \A i \in 1..Len(candidates) :
        /\ "inclusion" \in DOMAIN candidates[i] =>
               /\ candidates[i].inclusion.num >= 0
               /\ candidates[i].inclusion.num <= candidates[i].inclusion.den
        /\ "spanInclusion" \in DOMAIN candidates[i] =>
               /\ candidates[i].spanInclusion.num >= 0
               /\ candidates[i].spanInclusion.num <= candidates[i].spanInclusion.den

----------------------------------------------------------------------------
(* The ActiveValidator cron callback and activeValidatorJob; the candidate
   jobs together *)

\* activeValidators = await chaindata.currentValidators()
readCurrentValidators ==
    /\ loopRuns["ActiveValidator"].pc = "prelude"
    /\ loopRuns' = [loopRuns EXCEPT !["ActiveValidator"].read = currentValidators,
                                    !["ActiveValidator"].n = 1,
                                    !["ActiveValidator"].pc = "setActive"]
    /\ UNCHANGED <<running, candidates, notLoopVars>>

\* await db.setActive(candidate.stash, activeValidators.includes(candidate.stash))
setActive ==
    /\ loopRuns["ActiveValidator"].pc = "setActive"
    /\ LET r == loopRuns["ActiveValidator"]
           stash == r.stashes[r.n]
       IN  candidates' = Applied(Update([by |-> "stash", key |-> stash],
                                        [active |-> stash \in r.read], 0),
                                 ByStash(stash))
    /\ NextCandidate("ActiveValidator", "setActive")
    /\ UNCHANGED notLoopVars

\* the chain credits its first reward points of the active era to validator n
FirstPoints(n) ==
    /\ chainPoints[activeEra][n].eraPoints = 0
    /\ chainPoints' = [chainPoints EXCEPT ![activeEra][n].eraPoints = PointLevels[1]]
    /\ UNCHANGED <<eraPoints, totalEraPoints, eraStats, activeEra, eraRun, eraWrites,
                   running, failures, notEraVars>>

\* the validators of an era: the candidate, with points or still without,
\* and a validator that has the points from which the job takes an era as final
PointsOfEra(points) ==
    <<[address |-> "s1", eraPoints |-> points],
      [address |-> "v2", eraPoints |-> Threshold]>>

\* a chain at era 0 in which the candidate is a current validator without
\* points so far, a candidate record as the configuration has created it, and
\* empty era collections
InitConverge ==
    /\ InitJobs /\ InitExec /\ InitNominations /\ InitReward /\ InitCancel
    /\ InitScores /\ InitLoops
    /\ candidates = <<[NewCandidate("n1", "s1") EXCEPT !.commission = Ratio(0, 1)]>>
    /\ nominators = <<>>
    /\ ops = [k \in Callers |-> NoOp]
    /\ inflight = {}
    /\ sessions = {}
    /\ chain = [s \in Stashes |->
                  [identity |-> "id2", commission |-> 25000000, controller |-> "c2",
                   rewardDestination |-> "Staked", bonded |-> 6]]
    /\ prefRun = IdlePref
    /\ currentValidators = {"s1"}
    /\ activeEra = 0
    /\ chainPoints = [e \in 0..MaxEra |->
                         PointsOfEra(IF e = 0 THEN 0 ELSE PointLevels[1])]
    /\ eraPoints = <<>>
    /\ totalEraPoints = <<>>
    /\ eraStats = <<>>
    /\ eraRun = IdleRun
    /\ eraWrites = {}

\* the chain, while it moves
ChainMoves ==
    \/ FirstPoints(1)
    \/ NewEra

\* the steps of a run of activeValidatorJob
ActiveValidatorSteps ==
    \/ readCurrentValidators
    \/ setActive

\* the steps of a run of inclusionJob
InclusionSteps ==
    \/ getActiveEraIndex
    \/ getHistoryDepthEraPoints
    \/ setInclusion
    \/ getSpanEraPoints
    \/ setSpanInclusion

\* the steps of a run of eraPointsJob
EraPointsSteps ==
    \/ ReadStoredEra
    \/ FetchEra
    \/ setEraPoints
    \/ setTotalEraPoints

NextConverge ==
    \/ ChainMoves
    \/ LoopTick("ActiveValidator")
    \/ LoopTick("Inclusion")
    \/ EraPointsTick
    \/ ActiveValidatorSteps
    \/ InclusionSteps
    \/ EraPointsSteps
    \/ \E w \in eraWrites : ApplyEraWrite(w)

\* every job keeps ticking, every awaited call of a run returns, and the
\* store applies the updates issued
SpecConverge ==
    /\ InitConverge
    /\ [][NextConverge]_vars
    /\ WF_vars(LoopTick("ActiveValidator"))
    /\ WF_vars(LoopTick("Inclusion"))
    /\ WF_vars(EraPointsTick)
    /\ WF_vars(ActiveValidatorSteps)
    /\ WF_vars(InclusionSteps)
    /\ WF_vars(EraPointsSteps)
    /\ WF_vars(\E w \in eraWrites : ApplyEraWrite(w))

\* the eras from `back` before the active era on in which the chain has the
\* stash with points
ChainErasWithPoints(stash, back) ==
    Cardinality({e \in DOMAIN chainPoints :
                    /\ e <= activeEra
                    /\ e >= activeEra - back
                    /\ \E n \in 1..Len(chainPoints[e]) :
                           /\ chainPoints[e][n].address = stash
                           /\ chainPoints[e][n].eraPoints > 0})

\* the candidate record has the active flag and the inclusion rates that the
\* chain now gives for it
Derived(d) ==
    /\ "active" \in DOMAIN d /\ d.active = (d.stash \in currentValidators)
    /\ "inclusion" \in DOMAIN d
    /\ d.inclusion = Ratio(ChainErasWithPoints(d.stash, 83), 84)
    /\ "spanInclusion" \in DOMAIN d
    /\ d.spanInclusion = Ratio(ChainErasWithPoints(d.stash, 27), 28)

\* C32: once the chain and the candidate set have stopped changing (the chain
\* of the model moves finitely often), with every job ticking, every run
\* returning and every update applied, from some time on every candidate
\* record has the active flag and the inclusion rates that the chain gives,
\* whatever the runs before have read.
C32_Converges == <>[](\A i \in 1..Len(candidates) : Derived(candidates[i]))

====
